---- MODULE Spec2Model ----
(***************************************************************************)
(* A model of SimpleOpine (src/opine_obj.py): the in-memory OpineDB        *)
(* ranking engine with its query interpreter, membership scorer, the three *)
(* objective-predicate policies and the three caches.                      *)
(*                                                                         *)
(* Representation choices                                                  *)
(*  - a string is a sequence of lexemes (words, numerals, and the          *)
(*    separators " " and ":" as lexemes of their own), so that             *)
(*    str.split, `in`, str.lower and float() are computed, not assumed;    *)
(*  - a word vector is a pair of integers; a normalised vector is kept as  *)
(*    its primitive direction (v / gcd), which stands for v / |v|;         *)
(*  - a cosine is kept as its signed square, an exact rational;            *)
(*  - a score is kept as -log10(score) in units of 1/Decade of a decade,   *)
(*    so that the product of scores is a sum and a larger score is a       *)
(*    smaller number; Zero stands for the float 0.0.                       *)
(***************************************************************************)
EXTENDS Integers, Sequences, FiniteSets, TLC

(***************************************************************************)
(* Bounds of the model                                                     *)
(***************************************************************************)
MaxSubjective == 1
MaxObjective == 1
MaxRepeated == 3

(***************************************************************************)
(* Generic helpers                                                         *)
(***************************************************************************)
Abs(x) == IF x < 0 THEN -x ELSE x

Sign(x) == IF x < 0 THEN -1 ELSE IF x = 0 THEN 0 ELSE 1

RECURSIVE Gcd(_, _)
Gcd(a, b) == IF b = 0 THEN a ELSE Gcd(b, a % b)

Range(s) == {s[i] : i \in 1..Len(s)}

RECURSIVE SeqsUpTo(_, _)
SeqsUpTo(S, n) ==
    IF n = 0 THEN {<<>>}
    ELSE LET shorter == SeqsUpTo(S, n - 1)
         IN  shorter \cup {Append(s, x) : s \in {t \in shorter : Len(t) = n - 1}, x \in S}

\* a rational n/d in lowest terms with d > 0
Frac(n, d) ==
    LET g == Gcd(Abs(n), Abs(d))
        s == IF d < 0 THEN -1 ELSE 1
    IN  IF n = 0 THEN <<0, 1>> ELSE <<(s * n) \div g, (s * d) \div g>>

FracLess(x, y) == x[1] * y[2] < y[1] * x[2]

(***************************************************************************)
(* Strings as sequences of lexemes                                         *)
(***************************************************************************)
SP == " "
COLON == ":"

\* str.lower() of one lexeme
LowerLexeme(x) ==
    CASE x = "True" -> "true"
      [] x = "False" -> "false"
      [] x = "Clean" -> "clean"
      [] x = "Thai" -> "thai"
      [] OTHER -> x

\* str.lower()
Lower(s) == [i \in 1..Len(s) |-> LowerLexeme(s[i])]

\* str.split(sep): the fields between the occurrences of sep, empty fields kept
RECURSIVE SplitFrom(_, _, _, _)
SplitFrom(s, sep, i, cur) ==
    IF i > Len(s) THEN <<cur>>
    ELSE IF s[i] = sep THEN <<cur>> \o SplitFrom(s, sep, i + 1, <<>>)
    ELSE SplitFrom(s, sep, i + 1, Append(cur, s[i]))

Split(s, sep) == SplitFrom(s, sep, 1, <<>>)

\* sep in s
Contains(s, sep) == \E i \in 1..Len(s) : s[i] = sep

\* the lexemes gensim.utils.simple_preprocess keeps: alphabetic, 2..15 letters
WordLexemes ==
    {"clean", "Clean", "very", "dirty", "tasty", "food", "great", "stay",
     "cozy", "odd", "true", "True", "false", "False", "italian", "thai", "Thai",
     "bool", "cate", "num", "str", "wifi", "price", "cuisine", "pool", "room"}

\* lexemes that float() accepts, with their value
Numerals ==
    [x \in {"0", "1", "2", "3", "5", "9", "200", "3000"} |->
        CASE x = "0" -> 0 [] x = "1" -> 1 [] x = "2" -> 2
          [] x = "3" -> 3 [] x = "5" -> 5 [] x = "9" -> 9
          [] x = "200" -> 200 [] x = "3000" -> 3000]

\* gensim.utils.simple_preprocess: lower-cased word tokens, the rest dropped
RECURSIVE simple_preprocess(_)
simple_preprocess(s) ==
    IF s = <<>> THEN <<>>
    ELSE IF Head(s) \in WordLexemes
         THEN <<LowerLexeme(Head(s))>> \o simple_preprocess(Tail(s))
         ELSE simple_preprocess(Tail(s))

\* float(x) of a string; ok is FALSE where Python raises ValueError
FloatOfStr(s) ==
    IF Len(s) = 1 /\ s[1] \in DOMAIN Numerals
    THEN [ok |-> TRUE, n |-> Numerals[s[1]]]
    ELSE [ok |-> FALSE, n |-> 0]

(***************************************************************************)
(* Values of objective attributes: a str or a float                        *)
(***************************************************************************)
StrV(s) == [t |-> "str", s |-> s, n |-> 0]
NumV(n) == [t |-> "num", s |-> <<>>, n |-> n]

\* float(v) of an attribute value
FloatOf(v) == IF v.t = "num" THEN [ok |-> TRUE, n |-> v.n] ELSE FloatOfStr(v.s)

(***************************************************************************)
(* Vectors.  A vector is <<x, y>>; Normalize keeps the direction only.     *)
(***************************************************************************)
ZeroVec == <<0, 0>>

VAdd(u, v) == <<u[1] + v[1], u[2] + v[2]>>

VScale(u, k) == <<u[1] * k, u[2] * k>>

Dot(u, v) == u[1] * v[1] + u[2] * v[2]

\* res /= np.linalg.norm(res) when the norm is positive
Normalize(v) ==
    IF v = ZeroVec THEN ZeroVec
    ELSE LET g == Gcd(Abs(v[1]), Abs(v[2])) IN <<v[1] \div g, v[2] \div g>>

\* SimpleOpine.cosine as the signed square sgn(c) * c^2 of the cosine c;
\* 0.0 when one of the norms is 0
cosine(vec1, vec2) ==
    IF Dot(vec1, vec1) > 0 /\ Dot(vec2, vec2) > 0
    THEN Frac(Sign(Dot(vec1, vec2)) * Dot(vec1, vec2) * Dot(vec1, vec2),
              Dot(vec1, vec1) * Dot(vec2, vec2))
    ELSE <<0, 1>>

\* c < n/d and c > n/d for a cosine c kept as signed square, n/d > 0
CosBelow(c, n, d) == FracLess(c, <<n * n, d * d>>)

CosAbove(c, n, d) == FracLess(<<n * n, d * d>>, c)

\* the squared Euclidean distance 2 - 2c between two normalised vectors is
\* ordered as the cosine c is, with c = 1/2 against one zero vector and
\* c = 1 between two zero vectors
Nearness(u, v) ==
    IF u = ZeroVec /\ v = ZeroVec THEN <<1, 1>>
    ELSE IF u = ZeroVec \/ v = ZeroVec THEN <<1, 4>>
    ELSE cosine(u, v)

(***************************************************************************)
(* Scores, as -log10 in units of 1/Decade                                  *)
(***************************************************************************)
Decade == 10000

One == 0

\* the float 0.0: products below 1e-324 underflow to it
Zero == 324 * Decade

Fallback == 6 * Decade

BoolPenalty == 15 * Decade

AgnosticBool == 3010

AgnosticCate == 5229

Mul(a, b) == IF a + b >= Zero THEN Zero ELSE a + b

\* a > b as floats
ScoreGreater(a, b) == a < b

(***************************************************************************)
(* The loaded data: word2vec table, idf table, sentiments, entities,       *)
(* reviews, objective attributes                                           *)
(***************************************************************************)
\* self.model.wv
wv ==
    [w \in {"clean", "very", "dirty", "tasty", "food", "great", "odd"} |->
        CASE w = "clean" -> <<1, 0>>
          [] w = "very" -> <<2, 4>>
          [] w = "dirty" -> <<-1, 0>>
          [] w = "tasty" -> <<0, 1>>
          [] w = "food" -> <<0, 1>>
          [] w = "great" -> <<-1, -3>>
          [] w = "odd" -> <<1, 2>>]

\* self.idf; "odd" has a vector and no idf
idf ==
    [w \in {"clean", "very", "dirty", "tasty", "food", "great", "stay"} |->
        IF w = "food" THEN 2 ELSE 1]

VeryClean == <<"very", SP, "clean">>
Dirty == <<"dirty">>
TastyFood == <<"tasty", SP, "food">>

\* self.phrase_sentiments, in tenths
phrase_sentiments ==
    [p \in {VeryClean, Dirty, TastyFood} |->
        CASE p = VeryClean -> 8 [] p = Dirty -> -6 [] p = TastyFood -> 7]

Marker(c, v, s, n) == [center |-> c, verbalized |-> v, sum_senti |-> s, size |-> n]

M1 == Marker(<<3, 4>>, "very clean", 40, 5)
M2 == Marker(<<-1, 0>>, "dirty", -12, 2)
M3 == Marker(<<0, 1>>, "tasty food", 14, 2)
M4 == Marker(<<-1, 0>>, "dirty", -12, 2)

\* the order in which the dict of entities is iterated
EntityIds == <<"A", "B", "C">>

\* histograms as (attribute, <<(phrase, count), ...>>) lists in dict order
HistA == << <<"cleanliness", << <<VeryClean, 5>> >> >> >>
HistB == << <<"food", << <<TastyFood, 2>> >> >> >>
HistC == << <<"cleanliness", << <<VeryClean, 1>>, <<Dirty, 2>> >> >> >>

\* a dict given as a list of (key, value) pairs
Keys(d) == {d[i][1] : i \in 1..Len(d)}

Get(d, k) == d[CHOOSE i \in 1..Len(d) : d[i][1] = k][2]

WIFI == <<"wifi">>
PRICE == <<"price">>
CUISINE == <<"cuisine">>

\* the rows of the objective-attribute csv: entity C has no row
ObjRows ==
    [b \in {"A", "B"} |->
        IF b = "A"
        THEN (WIFI :> StrV(<<"true">>)) @@ (PRICE :> NumV(1)) @@ (CUISINE :> StrV(<<"italian">>))
        ELSE (WIFI :> StrV(<<"false">>)) @@ (PRICE :> NumV(3)) @@ (CUISINE :> StrV(<<"thai">>))]

NoObj == [a \in {} |-> StrV(<<>>)]

\* the entities after loading; withObj tells whether obj_attr_fn was given
LoadedEntities(withObj) ==
    [b \in Range(EntityIds) |->
        CASE b = "A" ->
               [histogram |-> HistA,
                summaries |-> << <<"cleanliness", <<M1, M2>> >> >>,
                obj |-> IF withObj THEN ObjRows["A"] ELSE NoObj]
          [] b = "B" ->
               [histogram |-> HistB,
                summaries |-> << <<"food", <<M3>> >> >>,
                obj |-> IF withObj THEN ObjRows["B"] ELSE NoObj]
          [] b = "C" ->
               [histogram |-> HistC,
                summaries |-> << <<"cleanliness", <<M4>> >> >>,
                obj |-> NoObj]]

\* self.obj_attrs and self.cate_to_id as built by the loader
LoadedObjAttrs(withObj) ==
    IF withObj
    THEN (WIFI :> [type |-> "bool", values |-> <<>>, range |-> <<0, 0>>])
         @@ (PRICE :> [type |-> "num", values |-> <<>>, range |-> <<1, 3>>])
         @@ (CUISINE :> [type |-> "cate", values |-> << <<"italian">>, <<"thai">> >>, range |-> <<0, 0>>])
    ELSE [a \in {} |-> [type |-> "", values |-> <<>>, range |-> <<0, 0>>]]

LoadedCateToId(withObj) ==
    IF withObj THEN (<<"italian">> :> 0) @@ (<<"thai">> :> 1) ELSE [v \in {} |-> 0]

(***************************************************************************)
(* The working state of one call.  The methods below take the state st and *)
(* give the state after the method; st.ret is the returned value and       *)
(* st.err the exception raised ("" for none), which ends the call.         *)
(*   p2v, ic, mc  phrase2vec_cache, interpret_cache, membership_cache      *)
(*   ent          self.entities                                            *)
(*   clf          the classifier invocations made, oldest first            *)
(*   coocs        the terms the co-occurrence interpreter was called with  *)
(*   ilog, mlog, olog  a record per interpret call, per membership call    *)
(*                and per (objective predicate, candidate) step            *)
(*   fail         the membership call or predicate step that raised        *)
(***************************************************************************)
None == <<>>

\* None where an attribute name is expected
NoAttr == "None"

Raise(st, e) == [st EXCEPT !.err = e]

Return(st, v) == [st EXCEPT !.ret = v]

\* the exception e raised while scoring bid, with or without pred
RaiseAt(st, e, bid, attr_name, pred, mode) ==
    [st EXCEPT !.err = e,
               !.fail = << [bid |-> bid, attr |-> attr_name, pred |-> pred, mode |-> mode] >>]

\* SimpleOpine.phrase2vec
RECURSIVE WeightedSum(_, _)
WeightedSum(words, res) ==
    IF words = <<>> THEN [ok |-> TRUE, v |-> res]
    ELSE IF Head(words) \in DOMAIN wv
         THEN IF Head(words) \in DOMAIN idf
              THEN WeightedSum(Tail(words), VAdd(res, VScale(wv[Head(words)], idf[Head(words)])))
              ELSE [ok |-> FALSE, v |-> res]
         ELSE WeightedSum(Tail(words), res)

phrase2vec(st, phrase) ==
    LET Store(res) == [st EXCEPT !.p2v = (phrase :> res) @@ st.p2v, !.ret = res]
        Embed(sum) == IF ~sum.ok THEN Raise(st, "KeyError") ELSE Store(Normalize(sum.v))
    IN  IF phrase \in DOMAIN st.p2v THEN Return(st, st.p2v[phrase])
        ELSE Embed(WeightedSum(simple_preprocess(phrase), ZeroVec))

\* the vector phrase2vec computes on an empty cache (ZeroVec where it raises)
VecOf(phrase) == Normalize(WeightedSum(simple_preprocess(phrase), ZeroVec).v)

(***************************************************************************)
(* build_NN_index: the distinct lower-cased phrases of all histograms in   *)
(* iteration order, each with the first attribute it was seen under        *)
(***************************************************************************)
RECURSIVE FlattenPhrases(_, _)
FlattenPhrases(attr, plist) ==
    IF plist = <<>> THEN <<>>
    ELSE << <<attr, Lower(Head(plist)[1])>> >> \o FlattenPhrases(attr, Tail(plist))

RECURSIVE FlattenHistogram(_)
FlattenHistogram(h) ==
    IF h = <<>> THEN <<>>
    ELSE FlattenPhrases(Head(h)[1], Head(h)[2]) \o FlattenHistogram(Tail(h))

RECURSIVE FlattenEntities(_, _)
FlattenEntities(ents, ids) ==
    IF ids = <<>> THEN <<>>
    ELSE FlattenHistogram(ents[Head(ids)].histogram) \o FlattenEntities(ents, Tail(ids))

RECURSIVE DistinctPhrases(_, _)
DistinctPhrases(pairs, acc) ==
    IF pairs = <<>> THEN acc
    ELSE IF \E i \in 1..Len(acc) : acc[i][2] = Head(pairs)[2]
         THEN DistinctPhrases(Tail(pairs), acc)
         ELSE DistinctPhrases(Tail(pairs), Append(acc, Head(pairs)))

build_NN_index(ents) == DistinctPhrases(FlattenEntities(ents, EntityIds), <<>>)

\* kd_tree_query that gives a phrase at the greatest distance
kd_tree_query_far(vectors, tie, vector) ==
    LET Pick(best) ==
            IF tie = "first" THEN CHOOSE i \in best : \A j \in best : i <= j
            ELSE CHOOSE i \in best : \A j \in best : i >= j
    IN  Pick({i \in 1..Len(vectors) :
                 \A j \in 1..Len(vectors) :
                     ~FracLess(Nearness(vector, vectors[j]), Nearness(vector, vectors[i]))})

\* self.kd_tree.query([vector], k=1): the index of a phrase at the least
\* distance; tie tells which of several such phrases the tree gives
kd_tree_query(vectors, tie, vector) ==
    LET Pick(best) ==
            IF tie = "first" THEN CHOOSE i \in best : \A j \in best : i <= j
            ELSE CHOOSE i \in best : \A j \in best : i >= j
    IN  Pick({i \in 1..Len(vectors) :
                 \A j \in 1..Len(vectors) :
                     ~FracLess(Nearness(vector, vectors[i]), Nearness(vector, vectors[j]))})

(***************************************************************************)
(* CooccurInterpreter                                                      *)
(***************************************************************************)
Extraction(p, e, a) == [predicate |-> p, entity |-> e, attribute |-> a]

Review(id, text, senti, exts) ==
    [review_id |-> id, text |-> text, sentiment |-> senti, extractions |-> exts]

\* self.reviews in the order of self.review_ids; sentiment is the compound
\* polarity of the text, in tenths
Reviews ==
    << Review("r1", <<"room", SP, "very", SP, "clean", SP, "great", SP, "stay">>, 8,
              << Extraction(<<"very", SP, "clean">>, <<"room">>, "cleanliness") >>),
       Review("r2", <<"tasty", SP, "food", SP, "great">>, 6,
              << Extraction(<<"tasty">>, <<"food">>, "food") >>),
       Review("r3", <<"dirty", SP, "room">>, -5,
              << Extraction(<<"dirty">>, <<"room">>, "cleanliness") >>) >>

\* position_index[rid][token]: the positions of the token in the review
Positions(review, token) ==
    LET tokens == simple_preprocess(Lower(review.text))
    IN  {pos \in 0..(Len(tokens) - 1) : tokens[pos + 1] = token}

PhrasePositions(review, phrase) ==
    UNION {Positions(review, t) : t \in Range(simple_preprocess(Lower(phrase)))}

\* CooccurInterpreter.get_dist: -1 when one of the phrases has no token there
get_dist(review, phrase1, phrase2) ==
    LET Least(gaps) == IF gaps = {} THEN -1 ELSE CHOOSE g \in gaps : \A h \in gaps : g <= h
    IN  Least({Abs(p1 - p2) : p1 \in PhrasePositions(review, phrase1),
                              p2 \in PhrasePositions(review, phrase2)})

\* the attribute idf log2(total / count), kept as the pair <<total, count>>
ExtractionCount(reviews_loaded, attr) ==
    LET RECURSIVE CountIn(_)
        CountIn(exts) ==
            IF exts = <<>> THEN 0
            ELSE (IF Head(exts).attribute = attr THEN 1 ELSE 0) + CountIn(Tail(exts))
        RECURSIVE CountAll(_)
        CountAll(i) ==
            IF i > Len(reviews_loaded) THEN 0
            ELSE CountIn(reviews_loaded[i].extractions) + CountAll(i + 1)
    IN  CountAll(1)

CoocAttrs(reviews_loaded) ==
    UNION {{reviews_loaded[i].extractions[j].attribute :
                j \in 1..Len(reviews_loaded[i].extractions)} : i \in 1..Len(reviews_loaded)}

TotalExtractions(reviews_loaded) ==
    LET RECURSIVE Sum(_)
        Sum(i) ==
            IF i > Len(reviews_loaded) THEN 0
            ELSE Len(reviews_loaded[i].extractions) + Sum(i + 1)
    IN  Sum(1)

cooc_idf(reviews_loaded) ==
    [a \in CoocAttrs(reviews_loaded) |->
        <<TotalExtractions(reviews_loaded), ExtractionCount(reviews_loaded, a)>>]

\* self.bm25.get_scores: the lexical relevance of each review to the tokens,
\* positive exactly for the reviews that hold a token of the query
bm25_get_scores(reviews_loaded, tokens) ==
    [i \in 1..Len(reviews_loaded) |->
        LET RECURSIVE Tf(_)
            Tf(k) == IF k > Len(tokens) THEN 0
                     ELSE Cardinality(Positions(reviews_loaded[i], tokens[k])) + Tf(k + 1)
        IN  Tf(1)]

RECURSIVE Power(_, _)
Power(b, e) == IF e = 0 THEN 1 ELSE b * Power(b, e - 1)

\* votes1 * log2(t1/c1) > votes2 * log2(t2/c2)
WeightedGreater(votes1, idf1, votes2, idf2) ==
    Power(idf1[1], votes1) * Power(idf2[2], votes2) > Power(idf2[1], votes2) * Power(idf1[2], votes1)

\* the stable sort of the review indices by descending score
RECURSIVE InsertByScore(_, _, _)
InsertByScore(sorted, i, score_mp) ==
    IF sorted = <<>> THEN <<i>>
    ELSE IF score_mp[i] > score_mp[Head(sorted)] THEN <<i>> \o sorted
    ELSE <<Head(sorted)>> \o InsertByScore(Tail(sorted), i, score_mp)

RECURSIVE SortReviews(_, _, _, _)
SortReviews(reviews_loaded, i, sorted, score_mp) ==
    IF i > Len(reviews_loaded) THEN sorted
    ELSE SortReviews(reviews_loaded, i + 1, InsertByScore(sorted, i, score_mp), score_mp)

TopReviews == 10

\* the extraction of the review closest to the term; attr is NoAttr
\* when no extraction co-occurs with the term
RECURSIVE ClosestExtraction(_, _, _, _)
ClosestExtraction(review, exts, qterm, best) ==
    IF exts = <<>> THEN best
    ELSE LET Closer(phrase, dist) ==
                 IF dist >= 0 /\ (best.dist < 0 \/ dist < best.dist)
                 THEN [dist |-> dist, phrase |-> phrase, attr |-> Head(exts).attribute]
                 ELSE best
             Tried(phrase) == Closer(phrase, get_dist(review, phrase, qterm))
         IN  ClosestExtraction(review, Tail(exts), qterm,
                               Tried(Head(exts).predicate \o <<SP>> \o Head(exts).entity))

\* the votes per attribute, in the order the attributes were first voted for
RECURSIVE Votes(_, _, _, _, _)
Votes(reviews_loaded, rids, score_mp, qterm, acc) ==
    IF rids = <<>> THEN acc
    ELSE LET Vote(m) ==
                 IF m.attr = NoAttr THEN acc
                 ELSE IF \E k \in 1..Len(acc) : acc[k].attr = m.attr
                 THEN [k \in 1..Len(acc) |->
                          IF acc[k].attr = m.attr THEN [acc[k] EXCEPT !.votes = @ + 1] ELSE acc[k]]
                 ELSE Append(acc, [attr |-> m.attr, phrase |-> m.phrase, votes |-> 1])
             Closest(review) ==
                 ClosestExtraction(review, review.extractions, qterm,
                                   [dist |-> -1, phrase |-> <<>>, attr |-> NoAttr])
         IN  Votes(reviews_loaded, Tail(rids), score_mp, qterm,
                   IF score_mp[Head(rids)] <= 0 THEN acc
                   ELSE Vote(Closest(reviews_loaded[Head(rids)])))

\* the loop over attribute_scores: a strictly larger weighted score wins
RECURSIVE BestAttr(_, _, _)
BestAttr(idf_of, votes, best) ==
    IF votes = <<>> THEN best
    ELSE LET v == Head(votes)
             better == IF best = None
                       THEN WeightedGreater(v.votes, idf_of[v.attr], 0, <<1, 1>>)
                       ELSE WeightedGreater(v.votes, idf_of[v.attr],
                                            best[1].votes, idf_of[best[1].attr])
         IN  BestAttr(idf_of, Tail(votes), IF better THEN <<v>> ELSE best)

\* CooccurInterpreter.interpret on a cache miss: <<attr, phrase>>, or
\* <<NoAttr, None>> for (None, None)
CoocResult(reviews_loaded, qterm) ==
    LET Picked(best) == IF best = None THEN <<NoAttr, None>> ELSE <<best[1].attr, best[1].phrase>>
        Top(sorted) ==
            SubSeq(sorted, 1, IF Len(sorted) < TopReviews THEN Len(sorted) ELSE TopReviews)
        Voted(score_mp) ==
            Picked(BestAttr(cooc_idf(reviews_loaded),
                            Votes(reviews_loaded,
                                  Top(SortReviews(reviews_loaded, 1, <<>>, score_mp)),
                                  score_mp, qterm, <<>>),
                            None))
        Weighted(scores) ==
            Voted([i \in 1..Len(reviews_loaded) |->
                      IF scores[i] > 0 THEN scores[i] * reviews_loaded[i].sentiment ELSE 0])
    IN  Weighted(bm25_get_scores(reviews_loaded, simple_preprocess(qterm)))

\* CooccurInterpreter.interpret; the method never writes its cache
cooc_interpret(st, qterm) ==
    IF qterm \in DOMAIN st.cc THEN [st EXCEPT !.ret = st.cc[qterm]]
    ELSE [st EXCEPT !.ret = CoocResult(st.reviews, qterm), !.coocs = Append(@, qterm)]

(***************************************************************************)
(* SimpleOpine.interpret                                                   *)
(***************************************************************************)
fallback_threshold == <<2, 5>>

\* fall_back with the threshold alone
fall_back_low(similarity, query_len) ==
    CosBelow(similarity, fallback_threshold[1], fallback_threshold[2])

\* similarity < fallback_threshold or query_len == 1
fall_back(similarity, query_len) ==
    CosBelow(similarity, fallback_threshold[1], fallback_threshold[2]) \/ query_len = 1

interpret(st, query_term) ==
    LET query_len == Len(simple_preprocess(query_term))
        Entry(hit, low, trigger, cooc_res, primary, res) ==
            [term |-> query_term, hit |-> hit, low |-> low, one |-> ~hit /\ query_len = 1,
             fallback |-> trigger, cooc |-> cooc_res, primary |-> primary, res |-> res]
        Store(s, low, trigger, cooc_res, primary, res) ==
            [s EXCEPT !.ic = (query_term :> res) @@ s.ic,
                      !.ret = res,
                      !.ilog = Append(@, Entry(FALSE, low, trigger, cooc_res, primary, res))]
        \* cooc_res = self.cooc.interpret(query_term); if cooc_res[0] != None: res = cooc_res
        FellBack(s3, low, primary) ==
            Store(s3, low, TRUE, s3.ret, primary, IF s3.ret[1] # NoAttr THEN s3.ret ELSE primary)
        Compared(s2, similarity, primary) ==
            IF fall_back(similarity, query_len)
            THEN FellBack(cooc_interpret(s2, query_term),
                          CosBelow(similarity, fallback_threshold[1], fallback_threshold[2]),
                          primary)
            ELSE Store(s2, FALSE, FALSE, <<NoAttr, None>>, primary, primary)
        \* phrase_vec = self.phrase2vec(phrase); similarity = self.cosine(phrase_vec, vector)
        Matched(s2, vector, primary) ==
            IF s2.err # "" THEN s2 ELSE Compared(s2, cosine(s2.ret, vector), primary)
        Found(s1, primary) == Matched(phrase2vec(s1, primary[2]), s1.ret, primary)
        \* vector = self.phrase2vec(query_term); res = self.all_phrases[phrase_id]
        Embedded(s1) ==
            IF s1.err # "" THEN s1
            ELSE Found(s1, st.all_phrases[kd_tree_query(st.all_vectors, st.kd_tie, s1.ret)])
    IN  IF query_term \in DOMAIN st.ic
        THEN [st EXCEPT !.ret = st.ic[query_term],
                        !.ilog = Append(@, Entry(TRUE, FALSE, FALSE, <<NoAttr, None>>,
                                                 st.ic[query_term], st.ic[query_term]))]
        ELSE Embedded(phrase2vec(st, query_term))

(***************************************************************************)
(* Features and classifiers                                                *)
(***************************************************************************)
Int2F(n) == <<n, 1>>

Zeros(n) == [i \in 1..n |-> Int2F(0)]

\* value of self.entities[bid][attr]; the keys histogram and summaries hold dicts
DictV == [t |-> "dict", s |-> <<>>, n |-> 0]

HasKey(entity, attr) == attr \in DOMAIN entity.obj \cup {<<"histogram">>, <<"summaries">>}

ValueAt(entity, attr) == IF attr \in DOMAIN entity.obj THEN entity.obj[attr] ELSE DictV

\* SimpleOpine.get_features_obj: [ok, err, X]
get_features_obj(st, atype, value, attr, op, oprand) ==
    LET n == Cardinality(DOMAIN st.cate_to_id)
        fv == FloatOf(value)
        fo == FloatOfStr(oprand)
        abs_diff == IF op = <<"<">> THEN fv.n - fo.n ELSE fo.n - fv.n
        span == st.obj_attrs[attr].range[2] - st.obj_attrs[attr].range[1] + 1
        bool_feature ==
            IF atype = <<"bool">> /\ Lower(oprand) # Lower(value.s) THEN <<Int2F(1)>> ELSE <<Int2F(0)>>
        cate_list ==
            IF atype = <<"cate">>
            THEN [i \in 1..n |->
                     Int2F((IF st.cate_to_id[value.s] = i - 1 THEN 1 ELSE 0)
                           - (IF st.cate_to_id[oprand] = i - 1 THEN 1 ELSE 0))]
            ELSE Zeros(n)
        num_features ==
            IF atype = <<"num">> THEN <<Int2F(abs_diff), Frac(abs_diff, span)>>
            ELSE <<Int2F(0), Int2F(0)>>
        err ==
            IF atype = <<"bool">> /\ value.t # "str" THEN "AttributeError"
            ELSE IF atype = <<"cate">> /\ value.t = "dict" THEN "TypeError"
            ELSE IF atype = <<"cate">> /\ (value.t # "str" \/ value.s \notin DOMAIN st.cate_to_id)
                 THEN "KeyError"
            ELSE IF atype = <<"cate">> /\ oprand \notin DOMAIN st.cate_to_id THEN "KeyError"
            ELSE IF atype = <<"num">> /\ value.t = "dict" THEN "TypeError"
            ELSE IF atype = <<"num">> /\ (~fv.ok \/ ~fo.ok) THEN "ValueError"
            ELSE IF atype = <<"num">> /\ attr \notin DOMAIN st.obj_attrs THEN "KeyError"
            ELSE ""
    IN  IF err # "" THEN [err |-> err, X |-> <<>>]
        ELSE [err |-> "", X |-> bool_feature \o cate_list \o num_features]

\* the length of a vector with an integral length
Norm(v) == CHOOSE n \in 0..(Abs(v[1]) + Abs(v[2])) : n * n = Dot(v, v)

\* SimpleOpine.get_features_phrases; the histogram is a list of (phrase, count)
get_features_phrases(st, histogram, qterm) ==
    LET RECURSIVE Loop(_, _, _, _)
        Loop(s, qvec, i, acc) ==
            LET \* pvec has length 1: the sum is kept scaled by the lengths len
                Counted(s1, count, pvec, similar, senti, len) ==
                    Loop(s1, qvec, i + 1,
                         [sum_phrases |-> VAdd(VScale(acc.sum_phrases, len),
                                               VScale(pvec, count * acc.scale)),
                          scale |-> acc.scale * len,
                          sim_count |-> acc.sim_count + (IF similar THEN count ELSE 0),
                          sent_sum |-> acc.sent_sum + (IF similar THEN count * senti ELSE 0),
                          sent_sum2 |-> acc.sent_sum2 + count * senti,
                          count2 |-> acc.count2 + count,
                          pos_count |-> acc.pos_count + (IF senti >= 0 THEN count ELSE 0),
                          neg_count |-> acc.neg_count + (IF senti >= 0 THEN 0 ELSE count),
                          pos_match_count |->
                              acc.pos_match_count + (IF similar /\ senti >= 0 THEN count ELSE 0),
                          neg_match_count |->
                              acc.neg_match_count + (IF similar /\ senti < 0 THEN count ELSE 0)])
                Embedded(s1, phrase, count) ==
                    IF s1.err # "" THEN [s |-> s1, acc |-> acc]
                    ELSE IF phrase \notin DOMAIN phrase_sentiments
                    THEN [s |-> Raise(s1, "KeyError"), acc |-> acc]
                    ELSE Counted(s1, count, s1.ret, CosAbove(cosine(qvec, s1.ret), 4, 5),
                                 phrase_sentiments[phrase],
                                 IF s1.ret = ZeroVec THEN 1 ELSE Norm(s1.ret))
            IN  IF i > Len(histogram) \/ s.err # "" THEN [s |-> s, acc |-> acc]
                ELSE Embedded(phrase2vec(s, histogram[i][1]), histogram[i][1], histogram[i][2])
        Features(s, a, qvec) ==
            IF s.err # "" THEN s
            ELSE Return(s, << Int2F(a.sim_count), Frac(a.sent_sum, a.sim_count),
                              Frac(a.sent_sum2, a.count2), Int2F(a.pos_count), Int2F(a.neg_count),
                              Int2F(a.pos_match_count), Int2F(a.neg_match_count),
                              cosine(qvec, a.sum_phrases) >>)
        Summed(r, qvec) == Features(r.s, r.acc, qvec)
        Started(s0) ==
            Summed(Loop(s0, s0.ret, 1,
                        [sum_phrases |-> ZeroVec, scale |-> 1, sim_count |-> 1, sent_sum |-> 0,
                         sent_sum2 |-> 0, count2 |-> 1, pos_count |-> 0, neg_count |-> 0,
                         pos_match_count |-> 0, neg_match_count |-> 0]),
                   s0.ret)
    IN  Started(phrase2vec(st, qterm))


\* SimpleOpine.get_features_summary: sorts the summary of the entity in place
\* by mean sentiment and gives five features per marker, padded to num_markers
num_markers == 10

MeanLess(m1, m2) == m1.sum_senti * (m2.size + 1) < m2.sum_senti * (m1.size + 1)

RECURSIVE InsertMarker(_, _)
InsertMarker(sorted, m) ==
    IF sorted = <<>> THEN <<m>>
    ELSE IF MeanLess(m, Head(sorted)) THEN <<m>> \o sorted
    ELSE <<Head(sorted)>> \o InsertMarker(Tail(sorted), m)

RECURSIVE SortSummary(_, _)
SortSummary(summary, sorted) ==
    IF summary = <<>> THEN sorted
    ELSE SortSummary(Tail(summary), InsertMarker(sorted, Head(summary)))

\* a dict given as a list of pairs, with the value of key k replaced
Put(d, k, v) == [i \in 1..Len(d) |-> IF d[i][1] = k THEN <<k, v>> ELSE d[i]]

RECURSIVE MarkerFeatures(_, _)
MarkerFeatures(summary, qvec) ==
    IF summary = <<>> THEN <<>>
    ELSE LET marker == Head(summary)
             similarity == cosine(marker.center, qvec)
             s == marker.sum_senti
             n == marker.size + 1
         IN  << Int2F(s), Int2F(marker.size), Frac(s, n), similarity,
                Frac(Sign(s) * s * s * similarity[1], n * n * similarity[2]) >>
             \o MarkerFeatures(Tail(summary), qvec)

get_features_summary(st, bid, attr_name, qterm) ==
    LET Features(s0, summary) ==
            Return([s0 EXCEPT !.ent[bid].summaries = Put(@, attr_name, summary)],
                   MarkerFeatures(summary, s0.ret) \o Zeros(5 * (num_markers - Len(summary))))
        Embedded(s0) ==
            IF s0.err # "" THEN s0
            ELSE Features(s0, SortSummary(Get(st.ent[bid].summaries, attr_name), <<>>))
    IN  Embedded(phrase2vec(st, qterm))

\* LogisticRegression.predict_proba(...)[0][1]: the trained model is a fixed
\* function from feature vectors to probabilities strictly between 0 and 1,
\* here one of Levels picked by the features and the coefficients of the model
Levels == <<458, 1549, 3010, 5229, 10000>>

RECURSIVE FeatureSum(_, _)
FeatureSum(X, I) ==
    IF I = {} THEN 0
    ELSE LET i == CHOOSE j \in I : TRUE
         IN  (i * (X[i][1] + 2 * X[i][2]) + FeatureSum(X, I \ {i})) % 1009

predict_proba(model, X) ==
    Levels[((FeatureSum(X, {i \in 1..Len(X) : X[i][1] # 0}) + model) % Len(Levels)) + 1]

\* sigmoid(x) of the agnostic policy for x = n/d, as a score; SigmoidTable
\* holds it for x = k/6, k = -60..60.  exp overflows below -709.78, the
\* quotient is exactly 1.0 from 37 on; a value below 1.0 is kept at least one
\* unit away from it
SigmoidTable ==
    << 43430, 42706, 41982, 41258, 40535, 39811, 39087, 38363, 37640, 36916, 36192,
       35469, 34745, 34021, 33298, 32574, 31851, 31128, 30405, 29681, 28958, 28236,
       27513, 26791, 26068, 25347, 24625, 23904, 23183, 22463, 21744, 21025, 20308,
       19591, 18876, 18162, 17451, 16741, 16034, 15330, 14629, 13932, 13240, 12553,
       11873, 11200, 10535, 9881, 9237, 8606, 7990, 7389, 6807, 6244, 5703,
       5186, 4695, 4230, 3794, 3387, 3010, 2663, 2347, 2059, 1800, 1567,
       1360, 1177, 1016, 875, 751, 644, 551, 471, 402, 343, 292,
       248, 211, 179, 152, 129, 110, 93, 79, 67, 57, 48,
       41, 34, 29, 25, 21, 18, 15, 13, 11, 9, 8,
       7, 6, 5, 4, 3, 3, 2, 2, 2, 1, 1,
       1, 1, 1, 1, 1, 1, 1, 1, 1, 1, 1 >>

sigmoid(n, d) ==
    IF n * 100 < -70978 * d THEN [err |-> "OverflowError", v |-> One]
    ELSE IF n >= 37 * d THEN [err |-> "", v |-> One]
    ELSE IF n > 10 * d THEN [err |-> "", v |-> 1]
    ELSE IF n < -10 * d THEN [err |-> "", v |-> (43429 * (-n)) \div (10 * d)]
    ELSE [err |-> "", v |-> SigmoidTable[((6 * n) \div d) + 61]]

(***************************************************************************)
(* SimpleOpine.opine and its inner function membership                     *)
(***************************************************************************)
\* the score of one (entity, attribute, term) from its summary or histogram
SubjectiveScore(st, mode, bid, attr_name, qterm, obj_features) ==
    LET Scored(s1, kind, model) ==
            IF s1.err # "" THEN s1
            ELSE [s1 EXCEPT !.ret = predict_proba(model, obj_features \o s1.ret),
                            !.clf = Append(@, <<kind, bid, attr_name, qterm>>)]
    IN  IF mode = "marker"
        THEN IF attr_name \in Keys(st.ent[bid].summaries)
             THEN Scored(get_features_summary(st, bid, attr_name, qterm), "marker",
                         st.marker_model)
             ELSE Return(st, Fallback)
        ELSE IF attr_name \in Keys(st.ent[bid].histogram)
             THEN Scored(get_features_phrases(st, Get(st.ent[bid].histogram, attr_name), qterm),
                         "phrase", st.phrase_model)
             ELSE Return(st, Fallback)

MLogEntry(key, bid, attr_name, qterm, obj_pred, mode, hit, score) ==
    [key |-> key, bid |-> bid, attr |-> attr_name, qterm |-> qterm, pred |-> obj_pred,
     mode |-> mode, hit |-> hit, score |-> score]

\* CacheStore that keeps the scores of the classifiers only
CacheStoreScored(mc, key, score) == IF score = Fallback THEN mc ELSE (key :> score) @@ mc

\* CacheStore into a cache that holds the last score only
CacheStoreLast(mc, key, score) == (key :> score)

\* self.membership_cache[key] = score
CacheStore(mc, key, score) == (key :> score) @@ mc

membership(st, mode, bid, attr_name, qterm, obj_pred) ==
    LET \* the branch len(self.obj_attrs) == 0 differs from the other in the
        \* key and in the block of objective features
        plain == DOMAIN st.obj_attrs = {}
        key == IF plain THEN <<bid, attr_name, qterm>> ELSE <<bid, attr_name, qterm, obj_pred>>
        known == obj_pred # None /\ HasKey(st.ent[bid], obj_pred[2])
        Entry(hit, score) == MLogEntry(key, bid, attr_name, qterm, obj_pred, mode, hit, score)
        Stored(s1) ==
            IF s1.err # "" THEN RaiseAt(s1, s1.err, bid, attr_name, obj_pred, mode)
            ELSE [s1 EXCEPT !.mc = CacheStore(s1.mc, key, s1.ret),
                            !.mlog = Append(@, Entry(FALSE, s1.ret))]
        Featured(f) ==
            IF f.err # "" THEN RaiseAt(st, f.err, bid, attr_name, obj_pred, mode)
            ELSE Stored(SubjectiveScore(st, mode, bid, attr_name, qterm, f.X))
        obj_features(atype, value, attr, op, oprand) ==
            IF plain THEN [err |-> "", X |-> <<>>]
            ELSE get_features_obj(st, atype, value, attr, op, oprand)
    IN  IF key \in DOMAIN st.mc
        THEN [st EXCEPT !.ret = st.mc[key], !.mlog = Append(@, Entry(TRUE, st.mc[key]))]
        ELSE Featured(IF known
                      THEN obj_features(obj_pred[1], ValueAt(st.ent[bid], obj_pred[2]),
                                        obj_pred[2], obj_pred[3], obj_pred[4])
                      ELSE obj_features(<<>>, StrV(<<>>), <<>>, <<>>, <<>>))

\* the split of the query into sub_predicates and obj_predicates
RECURSIVE Decompose(_, _, _)
Decompose(query, sub, obj) ==
    IF query = <<>> THEN [err |-> "", sub |-> sub, obj |-> obj]
    ELSE LET qterm == Head(query)
             fields == Split(qterm, SP)
             tagged == Split(fields[1], COLON)
         IN  IF Contains(qterm, COLON)
             THEN IF Len(fields) # 3 \/ Len(tagged) # 2
                  THEN [err |-> "ValueError", sub |-> sub, obj |-> obj]
                  ELSE Decompose(Tail(query), sub,
                                 Append(obj, <<tagged[1], tagged[2], fields[2], fields[3]>>))
             ELSE Decompose(Tail(query), Append(sub, qterm), obj)

\* scores[bid] *= membership(bid, attr_name, qterm, obj_pred) for bid in bids
RECURSIVE ScoreAll(_, _, _, _, _, _)
ScoreAll(st, mode, bids, attr_name, qterm, obj_pred) ==
    LET Scaled(s1) ==
            IF s1.err # "" THEN s1
            ELSE ScoreAll([s1 EXCEPT !.scores[Head(bids)] = Mul(@, s1.ret)],
                          mode, Tail(bids), attr_name, qterm, obj_pred)
    IN  IF bids = <<>> \/ st.err # "" THEN st
        ELSE Scaled(membership(st, mode, Head(bids), attr_name, qterm, obj_pred))

\* for qterm in sub_predicates: interpret the lower-cased term, score all bids
RECURSIVE SubjectiveLoop(_, _, _, _, _)
SubjectiveLoop(st, mode, bids, sub, obj_pred) ==
    LET Interpreted(s1, qterm) ==
            IF s1.err # "" THEN s1
            ELSE SubjectiveLoop(ScoreAll(s1, mode, bids, s1.ret[1], qterm, obj_pred),
                                mode, bids, Tail(sub), obj_pred)
        Term(qterm) == Interpreted(interpret(st, qterm), qterm)
    IN  IF sub = <<>> \/ st.err # "" THEN st
        ELSE Term(Lower(Head(sub)))

\* obj_context == 'sensitive' with each predicate coupled to one subjective term
RECURSIVE SensitiveLoopCoupled(_, _, _, _, _)
SensitiveLoopCoupled(st, mode, bids, sub, obj) ==
    IF obj = <<>> \/ st.err # "" THEN st
    ELSE SensitiveLoopCoupled(SubjectiveLoop(st, mode, bids,
                                             IF sub = <<>> THEN sub ELSE <<Head(sub)>>,
                                             Head(obj)),
                              mode, bids, sub, Tail(obj))

\* obj_context == 'sensitive'
RECURSIVE SensitiveLoop(_, _, _, _, _)
SensitiveLoop(st, mode, bids, sub, obj) ==
    IF obj = <<>> \/ st.err # "" THEN st
    ELSE SensitiveLoop(SubjectiveLoop(st, mode, bids, sub, Head(obj)), mode, bids, sub, Tail(obj))

OLogEntry(bid, pred, has, before, after) ==
    [bid |-> bid, pred |-> pred, has |-> has, before |-> before, after |-> after]

\* the factor of one predicate for one entity under the agnostic policy
AgnosticFactor(st, bid, pred) ==
    LET atype == pred[1]
        attr == pred[2]
        op == pred[3]
        oprand == pred[4]
        val == ValueAt(st.ent[bid], attr)
        fo == FloatOfStr(oprand)
        fv == FloatOf(val)
        span == st.obj_attrs[attr].range[2] - st.obj_attrs[attr].range[1] + 1
        sg == IF op = <<"<">> THEN sigmoid(fo.n - fv.n, span) ELSE sigmoid(fv.n - fo.n, span)
    IN  IF atype = <<"bool">>
        THEN IF val.t # "str" THEN [err |-> "AttributeError", v |-> One]
             ELSE [err |-> "", v |-> IF Lower(val.s) # Lower(oprand) THEN AgnosticBool ELSE One]
        ELSE IF atype = <<"cate">>
        THEN [err |-> "", v |-> IF val # StrV(oprand) THEN AgnosticCate ELSE One]
        ELSE IF attr \notin DOMAIN st.obj_attrs \/ st.obj_attrs[attr].type # "num"
             THEN [err |-> "KeyError", v |-> One]
        ELSE IF ~fo.ok THEN [err |-> "ValueError", v |-> One]
        ELSE IF val.t = "dict" THEN [err |-> "TypeError", v |-> One]
        ELSE IF ~fv.ok THEN [err |-> "ValueError", v |-> One]
        ELSE sg

\* BooleanFactor with a numeric value equal to the operand counted as satisfying
BooleanFactorInclusive(st, bid, pred) ==
    LET atype == pred[1]
        attr == pred[2]
        op == pred[3]
        oprand == pred[4]
        val == ValueAt(st.ent[bid], attr)
        fo == FloatOfStr(oprand)
        fv == FloatOf(val)
    IN  IF atype = <<"bool">>
        THEN IF val.t # "str" THEN [err |-> "AttributeError", v |-> One]
             ELSE [err |-> "", v |-> IF Lower(val.s) # Lower(oprand) THEN BoolPenalty ELSE One]
        ELSE IF atype = <<"cate">>
        THEN [err |-> "", v |-> IF val # StrV(oprand) THEN BoolPenalty ELSE One]
        ELSE IF val.t = "dict" THEN [err |-> "TypeError", v |-> One]
        ELSE IF ~fv.ok \/ ~fo.ok THEN [err |-> "ValueError", v |-> One]
        ELSE IF op = <<"<">>
             THEN [err |-> "", v |-> IF fv.n > fo.n THEN BoolPenalty ELSE One]
             ELSE [err |-> "", v |-> IF fv.n < fo.n THEN BoolPenalty ELSE One]

\* the factor of one predicate for one entity under the boolean policy
BooleanFactor(st, bid, pred) ==
    LET atype == pred[1]
        attr == pred[2]
        op == pred[3]
        oprand == pred[4]
        val == ValueAt(st.ent[bid], attr)
        fo == FloatOfStr(oprand)
        fv == FloatOf(val)
    IN  IF atype = <<"bool">>
        THEN IF val.t # "str" THEN [err |-> "AttributeError", v |-> One]
             ELSE [err |-> "", v |-> IF Lower(val.s) # Lower(oprand) THEN BoolPenalty ELSE One]
        ELSE IF atype = <<"cate">>
        THEN [err |-> "", v |-> IF val # StrV(oprand) THEN BoolPenalty ELSE One]
        ELSE IF val.t = "dict" THEN [err |-> "TypeError", v |-> One]
        ELSE IF ~fv.ok \/ ~fo.ok THEN [err |-> "ValueError", v |-> One]
        ELSE IF op = <<"<">>
             THEN [err |-> "", v |-> IF fv.n >= fo.n THEN BoolPenalty ELSE One]
             ELSE [err |-> "", v |-> IF fv.n <= fo.n THEN BoolPenalty ELSE One]

Factor(st, obj_context, bid, pred) ==
    IF obj_context = "agnostic" THEN AgnosticFactor(st, bid, pred) ELSE BooleanFactor(st, bid, pred)

\* FactorAll that counts a missing attribute as a violated boolean predicate
RECURSIVE FactorAllStrict(_, _, _, _)
FactorAllStrict(st, obj_context, bids, pred) ==
    LET bid == Head(bids)
        Step(has, after) ==
            [st EXCEPT !.scores[bid] = after,
                       !.olog = Append(@, OLogEntry(bid, pred, has, st.scores[bid], after))]
        Scaled(f) ==
            IF f.err # "" THEN RaiseAt(st, f.err, bid, NoAttr, pred, obj_context)
            ELSE FactorAllStrict(Step(TRUE, Mul(st.scores[bid], f.v)), obj_context, Tail(bids), pred)
    IN  IF bids = <<>> \/ st.err # "" THEN st
        ELSE IF ~HasKey(st.ent[bid], pred[2])
        THEN FactorAllStrict(Step(FALSE, Mul(st.scores[bid], BoolPenalty)),
                             obj_context, Tail(bids), pred)
        ELSE Scaled(Factor(st, obj_context, bid, pred))

\* for bid in bids: skip the entities without the attribute, scale the others
RECURSIVE FactorAll(_, _, _, _)
FactorAll(st, obj_context, bids, pred) ==
    LET bid == Head(bids)
        Step(has, after) ==
            [st EXCEPT !.scores[bid] = after,
                       !.olog = Append(@, OLogEntry(bid, pred, has, st.scores[bid], after))]
        Scaled(f) ==
            IF f.err # "" THEN RaiseAt(st, f.err, bid, NoAttr, pred, obj_context)
            ELSE FactorAll(Step(TRUE, Mul(st.scores[bid], f.v)), obj_context, Tail(bids), pred)
    IN  IF bids = <<>> \/ st.err # "" THEN st
        ELSE IF ~HasKey(st.ent[bid], pred[2])
        THEN FactorAll(Step(FALSE, st.scores[bid]), obj_context, Tail(bids), pred)
        ELSE Scaled(Factor(st, obj_context, bid, pred))

\* obj_context == 'agnostic' and obj_context == 'boolean'
RECURSIVE FactorLoop(_, _, _, _)
FactorLoop(st, obj_context, bids, obj) ==
    IF obj = <<>> \/ st.err # "" THEN st
    ELSE FactorLoop(FactorAll(st, obj_context, bids, Head(obj)), obj_context, bids, Tail(obj))

\* InsertBid that puts a candidate before the candidates of equal score
RECURSIVE InsertBidBeforeEqual(_, _, _)
InsertBidBeforeEqual(sorted, bid, scores) ==
    IF sorted = <<>> THEN <<bid>>
    ELSE IF ~ScoreGreater(scores[Head(sorted)], scores[bid]) THEN <<bid>> \o sorted
    ELSE <<Head(sorted)>> \o InsertBidBeforeEqual(Tail(sorted), bid, scores)

\* sorted(bids, key=lambda x : -scores[x]): stable, highest score first
RECURSIVE InsertBid(_, _, _)
InsertBid(sorted, bid, scores) ==
    IF sorted = <<>> THEN <<bid>>
    ELSE IF ScoreGreater(scores[bid], scores[Head(sorted)]) THEN <<bid>> \o sorted
    ELSE <<Head(sorted)>> \o InsertBid(Tail(sorted), bid, scores)

RECURSIVE SortBids(_, _, _)
SortBids(bids, sorted, scores) ==
    IF bids = <<>> THEN sorted
    ELSE SortBids(Tail(bids), InsertBid(sorted, Head(bids), scores), scores)

\* opine that scores the subjective terms read before it reports a malformed one
opine_parse_late(st, query, bids, mode, obj_context) ==
    LET Sorted(s2) == IF s2.err # "" THEN s2 ELSE Return(s2, SortBids(bids, <<>>, s2.scores))
        Objective(s1, sub, obj) ==
            IF obj_context = "sensitive" THEN SensitiveLoop(s1, mode, bids, sub, obj)
            ELSE IF obj_context \in {"agnostic", "boolean"}
                 THEN FactorLoop(s1, obj_context, bids, obj)
            ELSE s1
        Late(s1, d) ==
            IF s1.err # "" THEN s1
            ELSE IF d.err # "" THEN Raise(s1, d.err)
            ELSE Sorted(Objective(s1, d.sub, d.obj))
        Parsed(s0, d) == Late(SubjectiveLoop(s0, mode, bids, d.sub, None), d)
    IN  Parsed([st EXCEPT !.scores = [b \in Range(bids) |-> One]], Decompose(query, <<>>, <<>>))

opine(st, query, bids, mode, obj_context) ==
    LET Sorted(s2) == IF s2.err # "" THEN s2 ELSE Return(s2, SortBids(bids, <<>>, s2.scores))
        \* the objective predicates, after the subjective ones
        Objective(s1, sub, obj) ==
            IF obj_context = "sensitive" THEN SensitiveLoop(s1, mode, bids, sub, obj)
            ELSE IF obj_context \in {"agnostic", "boolean"}
                 THEN FactorLoop(s1, obj_context, bids, obj)
            ELSE s1
        Scored(s0, sub, obj) ==
            Sorted(Objective(SubjectiveLoop(s0, mode, bids, sub, None), sub, obj))
        Parsed(s0, d) == IF d.err # "" THEN Raise(s0, d.err) ELSE Scored(s0, d.sub, d.obj)
    IN  Parsed([st EXCEPT !.scores = [b \in Range(bids) |-> One]], Decompose(query, <<>>, <<>>))

(***************************************************************************)
(* The engine                                                              *)
(***************************************************************************)
VARIABLES
    entities,           \* self.entities
    obj_attrs,          \* self.obj_attrs
    cate_to_id,         \* self.cate_to_id
    all_phrases,        \* self.all_phrases: (attribute, phrase) per indexed phrase
    all_vectors,        \* self.all_vectors: the vector of each indexed phrase
    kd_tree,            \* self.kd_tree: which of several nearest phrases it gives
    reviews,            \* self.cooc.reviews in the order of self.cooc.review_ids
    cooc_cache,         \* self.cooc.interpret_cache
    marker_model,       \* self.marker_model
    phrase_model,       \* self.phrase_model
    phrase2vec_cache,   \* self.phrase2vec_cache
    interpret_cache,    \* self.interpret_cache
    membership_cache,   \* self.membership_cache
    call,               \* the last call made on the engine and what it did
    prev,               \* the opine call that preceded the last clear_cache
    mhist,              \* per membership argument tuple since the last
                        \* clear_cache: times scored, scores returned
    run,                \* the opine calls in flight, one per thread
    train               \* train_scorer: its position, the samples collected, the labels

vars == <<entities, obj_attrs, cate_to_id, all_phrases, all_vectors, kd_tree, reviews,
          cooc_cache, marker_model, phrase_model, phrase2vec_cache, interpret_cache,
          membership_cache, call, prev, mhist, run, train>>

static == <<obj_attrs, cate_to_id, all_phrases, all_vectors, kd_tree, reviews, cooc_cache,
            marker_model, phrase_model, train>>

EmptyCache == [k \in {} |-> 0]

\* the threads that may call opine at the same time, and a thread outside a call
Threads == {"t1", "t2"}

Idle ==
    [pc |-> "idle", bids |-> <<>>, mode |-> "", attr_name |-> NoAttr, at |-> 0,
     scores |-> EmptyCache, ranked |-> <<>>, err |-> ""]

\* the working state at the start of a call
Start ==
    [p2v |-> phrase2vec_cache, ic |-> interpret_cache, mc |-> membership_cache,
     ent |-> entities, reviews |-> reviews, cc |-> cooc_cache, obj_attrs |-> obj_attrs,
     cate_to_id |-> cate_to_id,
     all_phrases |-> all_phrases, all_vectors |-> all_vectors, kd_tie |-> kd_tree,
     marker_model |-> marker_model, phrase_model |-> phrase_model,
     scores |-> EmptyCache, ret |-> None, err |-> "",
     clf |-> <<>>, coocs |-> <<>>, ilog |-> <<>>, mlog |-> <<>>, olog |-> <<>>, fail |-> <<>>]

NoCall ==
    [op |-> "none", query |-> <<>>, bids |-> <<>>, mode |-> "", obj_context |-> "",
     term |-> <<>>, err |-> "", ranked |-> <<>>, interp |-> <<NoAttr, None>>, vec |-> ZeroVec,
     scores |-> EmptyCache, clf |-> <<>>, coocs |-> <<>>, ilog |-> <<>>, mlog |-> <<>>,
     olog |-> <<>>, fail |-> <<>>, args |-> <<>>, X |-> <<>>]

\* what a finished call leaves in the engine
Finish(s) ==
    /\ phrase2vec_cache' = s.p2v
    /\ interpret_cache' = s.ic
    /\ membership_cache' = s.mc
    /\ entities' = s.ent
    /\ UNCHANGED <<static, run>>

Logs(s, c) ==
    [c EXCEPT !.err = s.err, !.scores = s.scores, !.clf = s.clf, !.coocs = s.coocs,
              !.ilog = s.ilog, !.mlog = s.mlog, !.olog = s.olog, !.fail = s.fail]

\* mhist after the membership calls of mlog
HistCap == 2

RECURSIVE Record(_, _)
Record(h, mlog) ==
    IF mlog = <<>> THEN h
    ELSE LET e == Head(mlog)
             args == <<e.bid, e.attr, e.qterm, e.pred>>
             old == IF args \in DOMAIN h THEN h[args] ELSE [scored |-> 0, scores |-> {}]
             new == [scored |-> IF e.hit \/ old.scored = HistCap THEN old.scored
                                ELSE old.scored + 1,
                     scores |-> old.scores \cup {e.score}]
         IN  Record((args :> new) @@ h, Tail(mlog))

\* the coefficients the two fits can give: <<marker_model, phrase_model>>
Trainings == {<<0, 1>>, <<3, 2>>}

\* the labeled (entity, term) pairs of query_label_fn
CLEAN == <<"clean">>

ground_truth == {<<"A", CLEAN>>, <<"C", CLEAN>>}

\* one sample of train_scorer: interpret the term and build both feature
\* vectors when the entity has a summary of the interpreted attribute; with
\* objective attributes loaded the sample is then coupled with a predicate per
\* attribute, reading self.entities[bid][attr], a KeyError when the entity
\* has no value for it (the construction fails)
TrainOn(st, bid, qterm) ==
    LET Coupled(s2) ==
            IF \E attr \in DOMAIN s2.obj_attrs : ~HasKey(s2.ent[bid], attr)
            THEN Raise(s2, "KeyError")
            ELSE s2
        Sampled(s1, attr_name) ==
            IF attr_name \in Keys(s1.ent[bid].summaries)
            THEN Coupled(get_features_summary(
                     get_features_phrases(s1, Get(s1.ent[bid].histogram, attr_name), qterm),
                     bid, attr_name, qterm))
            ELSE s1
        Interpreted(s1) == Sampled(s1, s1.ret[1])
    IN  Interpreted(interpret(st, qterm))

RECURSIVE TrainAll(_, _)
TrainAll(st, samples) ==
    IF samples = {} \/ st.err # "" THEN st
    ELSE LET x == CHOOSE y \in samples : TRUE
         IN  TrainAll(TrainOn(st, x[1], x[2]), samples \ {x})

RECURSIVE IndexAll(_, _)
IndexAll(st, phrases) ==
    IF phrases = <<>> THEN st
    ELSE IndexAll(phrase2vec(st, Head(phrases)[2]), Tail(phrases))

\* SimpleOpine.__init__ on the loaded reviews and entities: build the indices,
\* train on the samples drawn
ConstructedWith(reviews_loaded, entities_loaded, withObj, tie, training, samples) ==
    LET Indexed(loaded, phrases) ==
            IndexAll([p2v |-> EmptyCache, ic |-> EmptyCache, mc |-> EmptyCache,
                      ent |-> loaded, reviews |-> reviews_loaded, cc |-> EmptyCache,
                      obj_attrs |-> LoadedObjAttrs(withObj),
                      cate_to_id |-> LoadedCateToId(withObj),
                      all_phrases |-> phrases,
                      all_vectors |-> [i \in 1..Len(phrases) |-> VecOf(phrases[i][2])],
                      kd_tie |-> tie, marker_model |-> training[1], phrase_model |-> training[2],
                      scores |-> EmptyCache, ret |-> None, err |-> "",
                      clf |-> <<>>, coocs |-> <<>>, ilog |-> <<>>, mlog |-> <<>>, olog |-> <<>>,
                      fail |-> <<>>],
                     phrases)
        Loaded(loaded) == Indexed(loaded, build_NN_index(loaded))
    IN  TrainAll(Loaded(entities_loaded), samples)

ConstructedOn(entities_loaded, withObj, tie, training, samples) ==
    ConstructedWith(Reviews, entities_loaded, withObj, tie, training, samples)

\* train_scorer after both fits
Fitted == [pc |-> "fitted", sampled |-> 0, all_bids |-> {}, all_qterms |-> {}, err |-> ""]

\* the engine a successful construction leaves
Built(s) ==
    /\ s.err = ""
    /\ train = Fitted
    /\ entities = s.ent
    /\ obj_attrs = s.obj_attrs
    /\ cate_to_id = s.cate_to_id
    /\ all_phrases = s.all_phrases
    /\ all_vectors = s.all_vectors
    /\ kd_tree = s.kd_tie
    /\ reviews = s.reviews
    /\ cooc_cache = s.cc
    /\ marker_model = s.marker_model
    /\ phrase_model = s.phrase_model
    /\ phrase2vec_cache = s.p2v
    /\ interpret_cache = s.ic
    /\ membership_cache = s.mc
    /\ call = NoCall
    /\ prev = NoCall
    /\ mhist = EmptyCache
    /\ run = [t \in Threads |-> Idle]

\* SimpleOpine.__init__: load, build the indices, train on the samples drawn
Constructed(withObj, tie, training, samples) ==
    ConstructedOn(LoadedEntities(withObj), withObj, tie, training, samples)

InitFrom(ObjChoices, Ties, Fits, Samples) ==
    \E withObj \in ObjChoices, tie \in Ties, training \in Fits, samples \in Samples :
        Built(Constructed(withObj, tie, training, samples))

KdTies == {"first", "last"}

SampleSets == (SUBSET ground_truth) \ {{}}

\* clear_cache that keeps the interpretations
clear_cache_scores ==
    /\ phrase2vec_cache' = EmptyCache
    /\ membership_cache' = EmptyCache
    /\ call' = [NoCall EXCEPT !.op = "clear_cache"]
    /\ mhist' = EmptyCache
    /\ UNCHANGED <<interpret_cache, entities, static, run>>

\* SimpleOpine.clear_cache
clear_cache ==
    /\ phrase2vec_cache' = EmptyCache
    /\ membership_cache' = EmptyCache
    /\ interpret_cache' = EmptyCache
    /\ call' = [NoCall EXCEPT !.op = "clear_cache"]
    /\ mhist' = EmptyCache
    /\ UNCHANGED <<entities, static, run>>

ClearCache == clear_cache /\ prev' = NoCall

\* clear_cache, with the opine call before it kept in prev
ClearCacheAfterRank == clear_cache /\ prev' = IF call.op = "opine" THEN call ELSE NoCall

\* SimpleOpine.phrase2vec(phrase)
Phrase2Vec(phrase) ==
    LET Embedded(s) ==
            /\ Finish(s)
            /\ call' = Logs(s, [NoCall EXCEPT !.op = "phrase2vec", !.term = phrase,
                                              !.vec = IF s.err = "" THEN s.ret ELSE ZeroVec])
            /\ prev' = NoCall
            /\ UNCHANGED mhist
    IN  Embedded(phrase2vec(Start, phrase))

\* SimpleOpine.interpret(query_term)
Interpret(query_term) ==
    LET Interpreted(s) ==
            /\ Finish(s)
            /\ call' = Logs(s, [NoCall EXCEPT !.op = "interpret", !.term = query_term,
                                              !.interp = IF s.err = "" THEN s.ret
                                                         ELSE <<NoAttr, None>>])
            /\ prev' = NoCall
            /\ UNCHANGED mhist
    IN  Interpreted(interpret(Start, query_term))

\* SimpleOpine.opine(query, bids, mode, obj_context)
Opine(query, bids, mode, obj_context) ==
    LET Opined(s) ==
            /\ Finish(s)
            /\ call' = Logs(s, [NoCall EXCEPT !.op = "opine", !.query = query, !.bids = bids,
                                              !.mode = mode, !.obj_context = obj_context,
                                              !.ranked = IF s.err = "" THEN s.ret ELSE <<>>])
            /\ prev' = IF call.op = "clear_cache" THEN prev ELSE NoCall
            /\ mhist' = Record(mhist, s.mlog)
    IN  Opined(opine(Start, query, bids, mode, obj_context))

(***************************************************************************)
(* Inputs                                                                  *)
(***************************************************************************)
GREAT_STAY == <<"great", SP, "stay">>
COZY == <<"cozy">>

Pred(type, attr, op, oprand) == <<type, COLON, attr, SP, op, SP, oprand>>

WifiTrue == Pred("bool", "wifi", "=", "True")
WifiFalse == Pred("bool", "wifi", "=", "false")
PriceLt3 == Pred("num", "price", "<", "3")
PriceGt1 == Pred("num", "price", ">", "1")
CuisineThai == Pred("cate", "cuisine", "=", "thai")
CuisineFrench == Pred("cate", "cuisine", "=", "french")

\* a categorical operand with a space, free text with a colon, a double space
CuisineThaiFood == CuisineThai \o <<SP, "food">>
NoteClean == <<"note", COLON, SP, "clean">>
PriceDoubleSpace == <<"num", COLON, "price", SP, SP, "<", SP, "3">>
CleanColonRoom == <<"very", SP, "clean", COLON, SP, "room">>

Modes == {"marker", "histogram"}

Policies == {"sensitive", "agnostic", "boolean"}

ABC == <<"A", "B", "C">>
CBA == <<"C", "B", "A">>

\* queries as generate_queries builds them: subjective terms, then objective
\* predicates
Queries(SubTerms, ns, ObjTerms, no) ==
    {s \o o : s \in SeqsUpTo(SubTerms, ns), o \in SeqsUpTo(ObjTerms, no)} \ {<<>>}

(***************************************************************************)
(* Specifications                                                          *)
(***************************************************************************)
Rank(Qs, Lists, Ms, Ps) ==
    \E query \in Qs, bids \in Lists, mode \in Ms, obj_context \in Ps :
        Opine(query, bids, mode, obj_context)

\* both catalogs, every mode and policy, one subjective term and one predicate
Init == InitFrom(BOOLEAN, {"first"}, {<<0, 1>>}, SampleSets)

RankAny == Rank(Queries({CLEAN}, MaxSubjective, {PriceLt3}, MaxObjective), {ABC}, Modes, Policies)

Next == ClearCache \/ RankAny

Spec == Init /\ [][Next]_vars

\* the boolean policy with a repeated subjective term
InitBool == InitFrom({TRUE}, {"first"}, Trainings, SampleSets)

RankBool ==
    Rank(Queries({CLEAN}, MaxRepeated, {WifiFalse}, MaxObjective), {ABC, CBA}, Modes, {"boolean"})

NextBool == ClearCache \/ RankBool

SpecBool == InitBool /\ [][NextBool]_vars

\* the catalog with objective attributes, one fit of the classifiers
InitObj == InitFrom({TRUE}, {"first"}, {<<0, 1>>}, SampleSets)

\* the boolean policy with predicates of every type, with and without a
\* subjective term before them
ObjectiveOnly == Queries({}, 0, {WifiTrue, PriceLt3, PriceGt1, CuisineThai}, MaxObjective + 1)

RankObj ==
    Rank(ObjectiveOnly \cup {<<CLEAN>> \o o : o \in ObjectiveOnly}, {ABC}, {"marker"}, {"boolean"})

NextObj == ClearCache \/ RankObj

SpecObj == InitObj /\ [][NextObj]_vars

\* every mode and policy on two orders of the candidates
RankSort ==
    Rank({<<CLEAN>>, <<PriceLt3>>, <<CLEAN, PriceLt3>>, <<WifiTrue>>}, {ABC, CBA}, Modes, Policies)

NextSort == ClearCache \/ RankSort

SpecSort == InitObj /\ [][NextSort]_vars

\* the experiment loop: rankings in both modes, clear_cache between runs
RankDet == Rank(Queries({CLEAN}, MaxSubjective, {}, 0), {ABC, CBA}, Modes, {"boolean"})

NextDet == ClearCacheAfterRank \/ RankDet

SpecDet == InitFrom({TRUE}, {"first"}, Trainings, SampleSets) /\ [][NextDet]_vars

\* interpret and phrase2vec called on their own
InterpretTerms == {CLEAN, VeryClean, GREAT_STAY, COZY}

InterpretTerm == \E query_term \in InterpretTerms : Interpret(query_term)

EmbedTerm == \E phrase \in {CLEAN} : Phrase2Vec(phrase)

NextInterpret == ClearCache \/ InterpretTerm \/ EmbedTerm

SpecInterpret ==
    InitFrom({FALSE}, KdTies, {<<0, 1>>}, SampleSets) /\ [][NextInterpret]_vars

\* the sensitive policy with predicates on known and unknown categories
RankFail ==
    Rank({<<CLEAN>>, <<CLEAN, CuisineThai>>, <<CLEAN, CuisineFrench>>, <<CLEAN, PriceLt3>>},
         {ABC, CBA}, Modes, {"sensitive"})

NextFail == ClearCache \/ RankFail

SpecFail == InitFrom(BOOLEAN, {"first"}, {<<0, 1>>}, SampleSets) /\ [][NextFail]_vars

\* queries with a term that is no predicate
MalformedTerms == {CuisineThaiFood, NoteClean, PriceDoubleSpace, CleanColonRoom}

ParseQueries ==
    {<<CLEAN>>, <<CLEAN, WifiTrue>>}
        \cup {<<m>> : m \in MalformedTerms}
        \cup {<<CLEAN, m>> : m \in MalformedTerms}
        \cup {<<WifiTrue, m>> : m \in MalformedTerms}

RankParse == Rank(ParseQueries, {ABC}, Modes, {"sensitive", "boolean"})

NextParse == ClearCache \/ RankParse

SpecParse == InitObj /\ [][NextParse]_vars

(***************************************************************************)
(* What the claims speak of                                                *)
(***************************************************************************)
\* the parsed predicates and the subjective terms of a query
PredsOf(query) == Decompose(query, <<>>, <<>>).obj

SubsOf(query) == Decompose(query, <<>>, <<>>).sub

Lacks(bid, pred) == ~HasKey(entities[bid], pred[2])

\* the entity has the attribute of the predicate and its value violates it:
\* bool values compare as booleans (letter case ignored), cate values as
\* strings, numbers by < and >
Violates(bid, pred) ==
    /\ ~Lacks(bid, pred)
    /\ CASE pred[1] = <<"bool">> ->
                Lower(ValueAt(entities[bid], pred[2]).s) # Lower(pred[4])
         [] pred[1] = <<"cate">> -> ValueAt(entities[bid], pred[2]).s # pred[4]
         [] pred[1] = <<"num">> ->
                \/ pred[3] = <<"<">>
                   /\ ValueAt(entities[bid], pred[2]).n >= FloatOfStr(pred[4]).n
                \/ pred[3] = <<">">>
                   /\ ValueAt(entities[bid], pred[2]).n <= FloatOfStr(pred[4]).n
         [] OTHER -> FALSE

Satisfies(bid, pred) == ~Lacks(bid, pred) /\ ~Violates(bid, pred)

PositionIn(list, x) == CHOOSE i \in 1..Len(list) : list[i] = x

Ranked(obj_context) == call.op = "opine" /\ call.err = "" /\ call.obj_context = obj_context

\* the number of predicates of the sequence that the entity violates
RECURSIVE ViolatedCount(_, _)
ViolatedCount(bid, preds) ==
    IF preds = <<>> THEN 0
    ELSE (IF Violates(bid, Head(preds)) THEN 1 ELSE 0) + ViolatedCount(bid, Tail(preds))

\* the entity has the data the mode scores the attribute from
HasData(bid, attr_name, mode) ==
    IF mode = "marker" THEN attr_name \in Keys(entities[bid].summaries)
    ELSE attr_name \in Keys(entities[bid].histogram)

\* C1: under the boolean policy, when some predicate of the query is violated
\* by a candidate and some candidate satisfies all predicates, every
\* candidate that satisfies all predicates is ranked strictly above every
\* candidate that violates at least one, whatever subjective terms the
\* query has.
C1_BooleanOrdering ==
    Ranked("boolean") =>
        \A a, b \in Range(call.bids) :
            (/\ PredsOf(call.query) # <<>>
             /\ \A i \in 1..Len(PredsOf(call.query)) : Satisfies(a, PredsOf(call.query)[i])
             /\ ViolatedCount(b, PredsOf(call.query)) > 0)
            => PositionIn(call.ranked, a) < PositionIn(call.ranked, b)

\* C2: under the boolean policy every (predicate, candidate) step multiplies
\* the running score by 1e-15 when the candidate violates the predicate and
\* leaves it unchanged otherwise, once per predicate; after an objective-only
\* query a candidate that violates k predicates has score (1e-15)^k, 1.0 for
\* k = 0.
C2_BooleanFactors ==
    Ranked("boolean") =>
        /\ Len(call.olog) = Len(PredsOf(call.query)) * Len(call.bids)
        /\ \A i \in 1..Len(call.olog) :
              /\ call.olog[i].pred = PredsOf(call.query)[((i - 1) \div Len(call.bids)) + 1]
              /\ call.olog[i].bid = call.bids[((i - 1) % Len(call.bids)) + 1]
              /\ call.olog[i].after =
                    IF Violates(call.olog[i].bid, call.olog[i].pred)
                    THEN Mul(call.olog[i].before, 150000)
                    ELSE call.olog[i].before
        /\ SubsOf(call.query) = <<>> =>
              \A b \in Range(call.bids) :
                  call.scores[b] = ViolatedCount(b, PredsOf(call.query)) * 150000

\* an objective-only boolean ranking with a candidate that violates two
\* predicates, one of them numeric at its boundary, and one that violates none
C2_Witness ==
    /\ Ranked("boolean")
    /\ call.query = <<PriceLt3, WifiTrue>>
    /\ call.scores["B"] = 2 * 150000
    /\ call.scores["A"] = 0

\* C3: rank returns the candidates sorted by descending final score, and
\* candidates of equal final score keep the relative order they have in the
\* input list, in every mode and under every policy.
C3_SortedStable ==
    (call.op = "opine" /\ call.err = "") =>
        /\ Len(call.ranked) = Len(call.bids)
        /\ Range(call.ranked) = Range(call.bids)
        /\ \A i, j \in 1..Len(call.ranked) :
              i < j =>
                  /\ call.scores[call.ranked[i]] <= call.scores[call.ranked[j]]
                  /\ call.scores[call.ranked[i]] = call.scores[call.ranked[j]]
                        => PositionIn(call.bids, call.ranked[i]) < PositionIn(call.bids, call.ranked[j])

\* a ranking of C, B, A in which C and A tie above B and keep their order
C3_Witness ==
    /\ call.op = "opine" /\ call.err = ""
    /\ call.bids = CBA
    /\ call.scores["C"] = call.scores["A"]
    /\ call.scores["B"] > call.scores["A"]
    /\ call.ranked = <<"C", "A", "B">>

\* C4: two rank calls with the same query, candidates, mode and policy,
\* the first made after any earlier rank calls, the second right after the
\* clear_cache() that follows the first, return the same ordering.
C4_SameAfterClear ==
    (/\ call.op = "opine"
     /\ prev.op = "opine"
     /\ call.query = prev.query
     /\ call.bids = prev.bids
     /\ call.mode = prev.mode
     /\ call.obj_context = prev.obj_context)
    => (call.err = prev.err /\ call.ranked = prev.ranked)

\* C5: between two clear_cache() calls every membership argument tuple is
\* scored at most once, by a classifier or by the missing-data fallback, and
\* every call with these arguments returns the same score.
C5_MembershipOnce ==
    \A args \in DOMAIN mhist :
        /\ mhist[args].scored <= 1
        /\ Cardinality(mhist[args].scores) = 1

\* a ranking that asked again for the fallback score of an entity without
\* data and got it from the cache, with no classifier called for the entity
C5_Witness ==
    /\ call.op = "opine" /\ call.err = ""
    /\ \E i \in 1..Len(call.mlog) :
          /\ call.mlog[i].bid = "B"
          /\ call.mlog[i].hit
          /\ call.mlog[i].score = 60000
    /\ \A i \in 1..Len(call.clf) : call.clf[i][2] # "B"
    /\ \E i \in 1..Len(call.mlog) : call.mlog[i].hit /\ call.mlog[i].score # 60000

\* C6: a step of clear_cache() leaves the three caches empty and the catalog,
\* the objective schema, the nearest-neighbor index, the co-occurrence index
\* and both classifiers as they were.
C6_ClearCacheFrame ==
    [][call'.op = "clear_cache" =>
          /\ phrase2vec_cache' = EmptyCache
          /\ interpret_cache' = EmptyCache
          /\ membership_cache' = EmptyCache
          /\ entities' = entities
          /\ obj_attrs' = obj_attrs
          /\ cate_to_id' = cate_to_id
          /\ all_phrases' = all_phrases
          /\ all_vectors' = all_vectors
          /\ kd_tree' = kd_tree
          /\ reviews' = reviews
          /\ train' = train
          /\ cooc_cache' = cooc_cache
          /\ marker_model' = marker_model
          /\ phrase_model' = phrase_model]_vars

\* the engine right after clear_cache(): empty caches, catalog and indices in place
C6_Witness ==
    /\ call.op = "clear_cache"
    /\ phrase2vec_cache = EmptyCache
    /\ interpret_cache = EmptyCache
    /\ membership_cache = EmptyCache
    /\ Len(all_phrases) = Len(all_vectors)
    /\ Len(all_phrases) > 0
    /\ DOMAIN obj_attrs # {}
    /\ "cleanliness" \in Keys(entities["A"].summaries)

\* the catalogued phrase the index gives for the term, and what the claim
\* says of the term
NearestPhrase(term) == kd_tree_query(all_vectors, kd_tree, VecOf(term))

SimilarityLow(term) == FracLess(cosine(all_vectors[NearestPhrase(term)], VecOf(term)), <<4, 25>>)

OneToken(term) == Len(simple_preprocess(term)) = 1

\* C7: an interpret(term) call that is not answered from the interpretation
\* cache invokes the co-occurrence fallback exactly when the similarity to
\* the nearest catalogued phrase is below 0.4 or the term has exactly one
\* token; every call returns the fallback result when the fallback is
\* triggered and gives a non-null attribute, and the nearest catalogued
\* (attribute, phrase) in every other case.
C7_Interpretation ==
    (call.op = "interpret" /\ call.err = "") =>
        /\ ~call.ilog[1].hit =>
              (call.coocs # <<>> <=> (SimilarityLow(call.term) \/ OneToken(call.term)))
        /\ call.interp =
              IF (SimilarityLow(call.term) \/ OneToken(call.term))
                 /\ CoocResult(reviews, call.term)[1] # NoAttr
              THEN CoocResult(reviews, call.term)
              ELSE all_phrases[NearestPhrase(call.term)]

\* a one-token term close to a catalogued phrase whose interpretation the
\* fallback replaced
C7_Witness ==
    /\ call.op = "interpret" /\ call.err = ""
    /\ call.term = CLEAN
    /\ ~SimilarityLow(CLEAN)
    /\ call.coocs = <<CLEAN>>
    /\ call.interp = CoocResult(reviews, CLEAN)
    /\ call.interp # all_phrases[NearestPhrase(CLEAN)]

\* C8: a membership call for an entity without a summary (marker mode) or a
\* histogram (histogram mode) of the interpreted attribute returns 1e-6,
\* invokes no classifier and raises nothing, with and without objective
\* attributes in the catalog and with and without a predicate.
C8_MissingData ==
    call.op = "opine" =>
        /\ \A i \in 1..Len(call.mlog) :
              ~HasData(call.mlog[i].bid, call.mlog[i].attr, call.mlog[i].mode)
                  => call.mlog[i].score = 60000
        /\ \A i \in 1..Len(call.clf) :
              HasData(call.clf[i][2], call.clf[i][3],
                      IF call.clf[i][1] = "marker" THEN "marker" ELSE "histogram")
        /\ \A i \in 1..Len(call.fail) :
              call.fail[i].attr # NoAttr
                  => HasData(call.fail[i].bid, call.fail[i].attr, call.fail[i].mode)

\* C9 as stated: under each of the three policies a predicate on an
\* attribute the entity lacks raises no error and leaves the running score
\* of the entity unchanged.
C9_SkippedEverywhere ==
    call.op = "opine" =>
        /\ \A i \in 1..Len(call.fail) :
              call.fail[i].pred = None \/ ~Lacks(call.fail[i].bid, call.fail[i].pred)
        /\ \A i \in 1..Len(call.olog) :
              Lacks(call.olog[i].bid, call.olog[i].pred)
                  => call.olog[i].after = call.olog[i].before
        /\ \A i \in 1..Len(call.mlog) :
              (call.mlog[i].pred # None /\ Lacks(call.mlog[i].bid, call.mlog[i].pred))
                  => call.mlog[i].score = 0

\* C9: a predicate on an attribute the entity lacks raises no error under
\* any policy; under the agnostic and the boolean policy it leaves the
\* running score of the entity unchanged; under the sensitive policy the
\* score is multiplied, once per subjective term, by a membership score
\* below 1.0 (a classifier score, or 1e-6 for missing subjective data).
C9_SkippedOrRescored ==
    call.op = "opine" =>
        /\ \A i \in 1..Len(call.fail) :
              call.fail[i].pred = None \/ ~Lacks(call.fail[i].bid, call.fail[i].pred)
        /\ \A i \in 1..Len(call.olog) :
              Lacks(call.olog[i].bid, call.olog[i].pred)
                  => call.olog[i].after = call.olog[i].before
        /\ \A i \in 1..Len(call.mlog) :
              (call.mlog[i].pred # None /\ Lacks(call.mlog[i].bid, call.mlog[i].pred))
                  => /\ call.obj_context = "sensitive"
                     /\ call.mlog[i].score > 0
                     /\ call.mlog[i].score \in Range(Levels) \cup {60000}
        /\ (call.err = "" /\ call.obj_context = "sensitive") =>
              Len(call.mlog) = Len(call.bids) * Len(SubsOf(call.query))
                                   * (1 + Len(PredsOf(call.query)))

\* a sensitive ranking that scored entity C, which has no price, against a
\* price predicate: C ends with the square of its subjective score
C9_Witness ==
    /\ call.op = "opine" /\ call.err = ""
    /\ call.obj_context = "sensitive"
    /\ call.query = <<CLEAN, PriceLt3>>
    /\ DOMAIN obj_attrs # {}
    /\ \E i \in 1..Len(call.mlog) :
          /\ call.mlog[i].bid = "C"
          /\ call.mlog[i].pred # None
          /\ ~call.mlog[i].hit
          /\ call.mlog[i].score \in Range(Levels)
          /\ call.scores["C"] = 2 * call.mlog[i].score

\* a term with a colon that is <type>:<attribute> <operator> <operand>
ThreeFields(term) ==
    /\ Len(term) = 7
    /\ term[2] = COLON /\ term[4] = SP /\ term[6] = SP
    /\ \A i \in {1, 3, 5, 7} : term[i] \notin {COLON, SP}

HasMalformedTerm(query) ==
    \E i \in 1..Len(query) : Contains(query[i], COLON) /\ ~ThreeFields(query[i])

DatePriceLt3 == Pred("date", "price", "<", "3")
FlagWifiTrue == Pred("flag", "wifi", "=", "true")

TagQueries ==
    {<<CLEAN>>, <<PriceLt3>>, <<DatePriceLt3>>, <<FlagWifiTrue>>,
     <<CLEAN, DatePriceLt3>>, <<CLEAN, FlagWifiTrue>>}

RankTag == Rank(TagQueries, {ABC}, Modes, Policies)

NextTag == ClearCache \/ RankTag

SpecTag == InitObj /\ [][NextTag]_vars

KnownTags == {<<"bool">>, <<"cate">>, <<"num">>}

HasUnknownTag(query) ==
    \E i \in 1..Len(PredsOf(query)) : PredsOf(query)[i][1] \notin KnownTags

\* C11: a rank call whose query holds a structured predicate with a type tag
\* other than bool, cate, num ends in an error, under every policy, and no
\* candidate is scored.
C11_UnknownTagFatal ==
    (call.op = "opine" /\ HasUnknownTag(call.query)) =>
        /\ call.err # ""
        /\ call.mlog = <<>>
        /\ call.olog = <<>>


(***************************************************************************)
(* The agnostic policy                                                     *)
(***************************************************************************)
CuisineItalian == Pred("cate", "cuisine", "=", "italian")
PriceLt0 == Pred("num", "price", "<", "0")
PriceGt5 == Pred("num", "price", ">", "5")
PriceLt200 == Pred("num", "price", "<", "200")
PriceGt3000 == Pred("num", "price", ">", "3000")

AgnosticPreds ==
    {WifiTrue, WifiFalse, CuisineThai, CuisineItalian,
     PriceLt3, PriceGt1, PriceLt0, PriceGt5, PriceLt200, PriceGt3000}

AgnosticQueries ==
    {<<p>> : p \in AgnosticPreds} \cup {<<CLEAN, p>> : p \in AgnosticPreds}
    \cup {<<PriceLt3, WifiTrue>>}

RankAgnostic == Rank(AgnosticQueries, {ABC}, Modes, {"agnostic"})

NextAgnostic == ClearCache \/ RankAgnostic

SpecAgnostic == InitObj /\ [][NextAgnostic]_vars

\* the predicate names a loaded attribute of the type of its tag
Typed(pred) == pred[2] \in DOMAIN obj_attrs /\ <<obj_attrs[pred[2]].type>> = pred[1]

\* (operand - value) or (value - operand), by the operator
SignedDiff(bid, pred) ==
    IF pred[3] = <<"<">>
    THEN FloatOfStr(pred[4]).n - FloatOf(ValueAt(entities[bid], pred[2])).n
    ELSE FloatOf(ValueAt(entities[bid], pred[2])).n - FloatOfStr(pred[4]).n

RangeSpan(pred) == obj_attrs[pred[2]].range[2] - obj_attrs[pred[2]].range[1] + 1

\* C12: under the agnostic policy a rank call with well-typed predicates ends
\* without error, and every (predicate, candidate) step on a candidate that
\* has the attribute multiplies the score by 0.5 for a boolean mismatch, 0.3
\* for a categorical mismatch, 1 for a match, and for a numeric predicate by
\* the sigmoid of the signed difference over (max - min + 1), a factor
\* strictly between 0 and 1.
C12_AgnosticFactors ==
    (call.op = "opine" /\ call.obj_context = "agnostic"
        /\ \A i \in 1..Len(PredsOf(call.query)) : Typed(PredsOf(call.query)[i])) =>
        /\ call.err = ""
        /\ \A i \in 1..Len(call.olog) :
              LET e == call.olog[i]
              IN  e.has =>
                    CASE e.pred[1] = <<"bool">> ->
                           e.after = Mul(e.before, IF Violates(e.bid, e.pred) THEN 3010 ELSE 0)
                      [] e.pred[1] = <<"cate">> ->
                           e.after = Mul(e.before, IF Violates(e.bid, e.pred) THEN 5229 ELSE 0)
                      [] OTHER ->
                           /\ e.after = Mul(e.before, sigmoid(SignedDiff(e.bid, e.pred),
                                                              RangeSpan(e.pred)).v)
                           /\ e.after > e.before
                           /\ e.after < 3240000


(***************************************************************************)
(* One numeric predicate under the agnostic policy                         *)
(***************************************************************************)
NumericPreds ==
    {Pred("num", "price", op, c) : op \in {"<", ">"}, c \in {"0", "2", "3", "5", "200", "3000"}}

RankNumeric ==
    Rank({<<p>> : p \in NumericPreds} \cup {<<CLEAN>>}, {ABC, CBA}, Modes, {"agnostic"})

NextNumeric == ClearCache \/ RankNumeric

SpecNumeric == InitObj /\ [][NextNumeric]_vars

NumValue(bid, pred) == FloatOf(ValueAt(entities[bid], pred[2])).n

\* C13: under the agnostic policy, after a rank call whose query is one
\* numeric predicate attr < c, of two candidates that both have attr the one
\* with the strictly smaller value has the strictly higher score and comes
\* first in the returned list; for attr > c the one with the larger value.
C13_NumericOrder ==
    (call.op = "opine" /\ call.obj_context = "agnostic" /\ Len(call.query) = 1
        /\ Len(PredsOf(call.query)) = 1
        /\ PredsOf(call.query)[1][1] = <<"num">> /\ Typed(PredsOf(call.query)[1])) =>
        LET pred == PredsOf(call.query)[1]
            Better(b1, b2) ==
                IF pred[3] = <<"<">> THEN NumValue(b1, pred) < NumValue(b2, pred)
                ELSE NumValue(b1, pred) > NumValue(b2, pred)
        IN  /\ call.err = ""
            /\ \A b1, b2 \in Range(call.bids) :
                  (~Lacks(b1, pred) /\ ~Lacks(b2, pred) /\ Better(b1, b2)) =>
                      /\ call.scores[b1] < call.scores[b2]
                      /\ PositionIn(call.ranked, b1) < PositionIn(call.ranked, b2)


(***************************************************************************)
(* Concurrent rank calls on one engine.  A thread runs opine([term], bids, *)
(* mode): the interpretation of the term, then per candidate the read of   *)
(* membership_cache and, on a miss, the scoring that ends with the write   *)
(* of membership_cache, then the sort.  Each of these is one step.         *)
(***************************************************************************)
MemberKey(bid, attr_name, qterm) ==
    IF DOMAIN obj_attrs = {} THEN <<bid, attr_name, qterm>> ELSE <<bid, attr_name, qterm, None>>

\* opine up to the first membership call: scores, decomposition, interpret
Begin(t, bids, mode) ==
    /\ run[t].pc = "idle"
    /\ LET Interpreted(s) ==
               /\ phrase2vec_cache' = s.p2v
               /\ interpret_cache' = s.ic
               /\ run' = [run EXCEPT ![t] =
                             [Idle EXCEPT !.pc = "lookup", !.bids = bids, !.mode = mode,
                                          !.attr_name = s.ret[1], !.at = 1,
                                          !.scores = [b \in Range(bids) |-> One]]]
       IN  Interpreted(interpret(Start, Lower(CLEAN)))
    /\ UNCHANGED <<entities, membership_cache, static, call, prev, mhist>>

\* membership: the read of the cache
Lookup(t) ==
    /\ run[t].pc = "lookup"
    /\ run[t].at <= Len(run[t].bids)
    /\ LET bid == run[t].bids[run[t].at]
           key == MemberKey(bid, run[t].attr_name, CLEAN)
       IN  run' = IF key \in DOMAIN membership_cache
                  THEN [run EXCEPT ![t].scores[bid] = Mul(@, membership_cache[key]),
                                   ![t].at = @ + 1]
                  ELSE [run EXCEPT ![t].pc = "score"]
    /\ UNCHANGED <<entities, phrase2vec_cache, interpret_cache, membership_cache, static,
                   call, prev, mhist>>

\* membership after a miss: the features, the classifier, the write of the cache
Score(t) ==
    /\ run[t].pc = "score"
    /\ LET bid == run[t].bids[run[t].at]
           key == MemberKey(bid, run[t].attr_name, CLEAN)
           Scored(s) ==
               /\ phrase2vec_cache' = s.p2v
               /\ entities' = s.ent
               /\ membership_cache' =
                     IF s.err = "" THEN CacheStore(membership_cache, key, s.ret)
                     ELSE membership_cache
               /\ run' = IF s.err = ""
                         THEN [run EXCEPT ![t].scores[bid] = Mul(@, s.ret), ![t].at = @ + 1,
                                          ![t].pc = "lookup"]
                         ELSE [run EXCEPT ![t].pc = "done", ![t].err = s.err]
       IN  Scored(membership([Start EXCEPT !.mc = EmptyCache], run[t].mode, bid,
                             run[t].attr_name, CLEAN, None))
    /\ UNCHANGED <<interpret_cache, static, call, prev, mhist>>

\* return sorted(bids, key=lambda x : -scores[x])
Sort(t) ==
    /\ run[t].pc = "lookup"
    /\ run[t].at > Len(run[t].bids)
    /\ run' = [run EXCEPT ![t].pc = "done",
                          ![t].ranked = SortBids(run[t].bids, <<>>, run[t].scores)]
    /\ UNCHANGED <<entities, phrase2vec_cache, interpret_cache, membership_cache, static,
                   call, prev, mhist>>

\* the caller takes the result; the thread may call again
Join(t) ==
    /\ run[t].pc = "done"
    /\ run' = [run EXCEPT ![t] = Idle]
    /\ UNCHANGED <<entities, phrase2vec_cache, interpret_cache, membership_cache, static,
                   call, prev, mhist>>

BeginAny == \E t \in Threads, bids \in {ABC}, mode \in Modes : Begin(t, bids, mode)

LookupAny == \E t \in Threads : Lookup(t)

ScoreAny == \E t \in Threads : Score(t)

SortAny == \E t \in Threads : Sort(t)

JoinAny == \E t \in Threads : Join(t)

NextConcurrent == ClearCache \/ BeginAny \/ LookupAny \/ ScoreAny \/ SortAny \/ JoinAny

SpecConcurrent ==
    InitFrom({TRUE}, {"first"}, Trainings, SampleSets) /\ [][NextConcurrent]_vars

\* what the call returns when it runs alone on empty caches
Alone(bids, mode) ==
    opine([Start EXCEPT !.p2v = EmptyCache, !.ic = EmptyCache, !.mc = EmptyCache],
          <<CLEAN>>, bids, mode, "boolean").ret

\* C14: every rank call that ends while other calls and clear_cache() run
\* concurrently ends without error and returns the ordering the same call
\* returns when it runs alone on empty caches.
C14_ConcurrentAsAlone ==
    \A t \in Threads :
        run[t].pc = "done" =>
            /\ run[t].err = ""
            /\ run[t].ranked = Alone(run[t].bids, run[t].mode)


\* C15: no step of rank or clear_cache() changes the entity catalog: the
\* histograms, the objective values and the summaries of every entity, the
\* order of the markers in each summary list included, stay as loaded.
C15_CatalogFrame == [][entities' = entities]_vars


(***************************************************************************)
(* The nearest-neighbor index over catalogs whose phrases share vectors    *)
(***************************************************************************)
FOOD == <<"food">>
STAY == <<"stay">>

\* the histogram of entity B in each catalog: as loaded; with two phrases of
\* the same known tokens' direction; with two phrases without a known token;
\* with a phrase of entity A under a second attribute
IndexHistograms ==
    {HistB,
     << <<"food", << <<TastyFood, 2>>, <<FOOD, 1>> >> >> >>,
     << <<"food", << <<TastyFood, 2>> >> >>, <<"comfort", << <<COZY, 1>>, <<STAY, 1>> >> >> >>,
     << <<"food", << <<TastyFood, 2>> >> >>, <<"room", << <<VeryClean, 1>> >> >> >>}

InitIndex ==
    \E h \in IndexHistograms, tie \in KdTies :
        Built(ConstructedOn([LoadedEntities(FALSE) EXCEPT !["B"].histogram = h],
                            FALSE, tie, <<0, 1>>, {<<"A", CLEAN>>}))

InterpretIndexed ==
    \E query_term \in {VeryClean, TastyFood, FOOD, COZY, STAY, Dirty} : Interpret(query_term)

NextIndex == ClearCache \/ InterpretIndexed

SpecIndex == InitIndex /\ [][NextIndex]_vars

\* the attributes whose histograms hold the phrase
AttrsOf(phrase) ==
    UNION {{entities[b].histogram[i][1] :
               i \in {k \in 1..Len(entities[b].histogram) :
                         \E j \in 1..Len(entities[b].histogram[k][2]) :
                             Lower(entities[b].histogram[k][2][j][1]) = phrase}} :
           b \in DOMAIN entities}

Catalogued(phrase) == \E i \in 1..Len(all_phrases) : all_phrases[i][2] = phrase

\* C16 as stated: the nearest-neighbor lookup an interpret call makes for a
\* catalogued phrase gives that phrase, with an attribute it is tagged with,
\* and the indexed vector it gives is the vector of the phrase (distance 0).
C16_NearestIsItself ==
    (call.op = "interpret" /\ call.err = "" /\ Catalogued(call.term) /\ ~call.ilog[1].hit) =>
        /\ call.ilog[1].primary[2] = call.term
        /\ call.ilog[1].primary[1] \in AttrsOf(call.term)
        /\ all_vectors[NearestPhrase(call.term)] = VecOf(call.term)


SameVector(phrase) == {i \in 1..Len(all_phrases) : VecOf(all_phrases[i][2]) = VecOf(phrase)}

\* C16: the nearest-neighbor lookup an interpret call makes for a catalogued
\* phrase gives a catalogued phrase with the same vector (distance 0) and an
\* attribute that phrase is tagged with; it gives the phrase itself when no
\* other catalogued phrase has the same vector.
C16_NearestSameVector ==
    (call.op = "interpret" /\ call.err = "" /\ Catalogued(call.term) /\ ~call.ilog[1].hit) =>
        /\ Catalogued(call.ilog[1].primary[2])
        /\ VecOf(call.ilog[1].primary[2]) = VecOf(call.term)
        /\ call.ilog[1].primary[1] \in AttrsOf(call.ilog[1].primary[2])
        /\ Cardinality(SameVector(call.term)) = 1 => call.ilog[1].primary[2] = call.term

\* the lookup for a catalogued phrase gave another phrase of the same vector
C16_Witness ==
    /\ call.op = "interpret" /\ call.err = "" /\ ~call.ilog[1].hit
    /\ Catalogued(call.term)
    /\ Cardinality(SameVector(call.term)) = 2
    /\ call.ilog[1].primary[2] # call.term
    /\ VecOf(call.ilog[1].primary[2]) = VecOf(call.term)


(***************************************************************************)
(* phrase2vec on tokens missing from the word2vec table or the idf table   *)
(***************************************************************************)
ODD == <<"odd">>
CleanOdd == <<"clean", SP, "odd">>

\* "cozy" is in neither table, "stay" has an idf only, "odd" a vector only
EmbedPhrases == {CLEAN, VeryClean, TastyFood, FOOD, GREAT_STAY, STAY, COZY, ODD, CleanOdd}

EmbedPhrase == \E phrase \in EmbedPhrases : Phrase2Vec(phrase)

NextEmbed == ClearCache \/ EmbedPhrase

SpecEmbed == InitFrom({FALSE}, {"first"}, {<<0, 1>>}, SampleSets) /\ [][NextEmbed]_vars

\* the tokens of a phrase that have both a vector and an idf
Weighted(phrase) ==
    {i \in 1..Len(simple_preprocess(phrase)) :
        simple_preprocess(phrase)[i] \in DOMAIN wv \cap DOMAIN idf}

\* C17: phrase2vec never raises, whatever table a token is missing from, and
\* returns the zero vector when no token has both a vector and an idf.
C17_EmbedNeverFails ==
    call.op = "phrase2vec" =>
        /\ call.err = ""
        /\ Weighted(call.term) = {} => call.vec = ZeroVec


(***************************************************************************)
(* Rank calls after earlier rank calls in the other mode                   *)
(***************************************************************************)
RankHistory == Rank({<<CLEAN>>, <<CLEAN, PriceLt3>>}, {ABC, CBA}, Modes, Policies)

NextHistory == ClearCache \/ RankHistory

SpecHistory == InitFrom({TRUE}, {"first"}, Trainings, SampleSets) /\ [][NextHistory]_vars

\* the same call made on freshly cleared caches
Fresh(c) ==
    opine([Start EXCEPT !.p2v = EmptyCache, !.ic = EmptyCache, !.mc = EmptyCache],
          c.query, c.bids, c.mode, c.obj_context)

\* C18: a rank call made after any sequence of earlier rank calls, with or
\* without clear_cache() in between, ends as the same call ends on freshly
\* cleared caches and returns the same ordering.
C18_HistoryIndependent ==
    LET Same(f) == call.err = f.err /\ call.ranked = f.ret
    IN  call.op = "opine" => Same(Fresh(call))


(***************************************************************************)
(* The sensitive policy: subjective terms paired with objective predicates *)
(***************************************************************************)
SensitiveQueries ==
    {<<PriceLt3>>, <<WifiTrue, PriceLt3>>, <<CuisineFrench>>,
     <<CLEAN>>, <<CLEAN, PriceLt3>>, <<CLEAN, CuisineFrench>>,
     <<CLEAN, TastyFood, PriceLt3>>, <<CLEAN, TastyFood, PriceLt3, WifiTrue>>,
     <<CLEAN, CLEAN, PriceLt3>>}

RankSensitive == Rank(SensitiveQueries, {ABC, CBA}, Modes, {"sensitive"})

NextSensitive == ClearCache \/ RankSensitive

SpecSensitive == InitFrom(BOOLEAN, {"first"}, {<<0, 1>>}, SampleSets) /\ [][NextSensitive]_vars

\* the subjective terms and the objective predicates of the last call
SubOf(c) == Decompose(c.query, <<>>, <<>>).sub

ObjOf(c) == Decompose(c.query, <<>>, <<>>).obj

\* how many elements of seq are x
Occurrences(seq, x) == Cardinality({i \in 1..Len(seq) : seq[i] = x})

\* the membership calls of the last call for bid with qterm and obj_pred
MembershipCalls(bid, qterm, obj_pred) ==
    {i \in 1..Len(call.mlog) :
        /\ call.mlog[i].bid = bid
        /\ call.mlog[i].qterm = qterm
        /\ call.mlog[i].pred = obj_pred}

\* 1.0 times the scores of the membership calls for bid, in call order
RECURSIVE ProductFor(_, _, _)
ProductFor(mlog, bid, acc) ==
    IF mlog = <<>> THEN acc
    ELSE ProductFor(Tail(mlog), bid,
                    IF Head(mlog).bid = bid THEN Mul(acc, Head(mlog).score) ELSE acc)

\* C19: a rank call under the sensitive policy that returns has multiplied
\* the score of each candidate, starting from 1.0, by one membership score
\* per subjective term and one per (objective predicate, subjective term)
\* pair and by nothing else; a query without a subjective term never fails,
\* keeps every score at 1.0 and returns the candidates in input order.
C19_SensitivePairs ==
    (call.op = "opine" /\ call.obj_context = "sensitive") =>
        /\ call.err = "" =>
              \A bid \in Range(call.bids) :
                  /\ \A q \in Range(SubOf(call)) :
                        /\ Cardinality(MembershipCalls(bid, Lower(q), None))
                              = Occurrences(SubOf(call), q)
                        /\ \A p \in Range(ObjOf(call)) :
                              Cardinality(MembershipCalls(bid, Lower(q), p))
                                  = Occurrences(SubOf(call), q) * Occurrences(ObjOf(call), p)
                  /\ Len(call.mlog)
                        = Len(call.bids) * Len(SubOf(call)) * (1 + Len(ObjOf(call)))
                  /\ call.scores[bid] = ProductFor(call.mlog, bid, One)
        /\ (SubOf(call) = <<>> /\ Decompose(call.query, <<>>, <<>>).err = "") =>
              /\ call.err = ""
              /\ call.mlog = <<>>
              /\ \A bid \in Range(call.bids) : call.scores[bid] = One
              /\ call.ranked = call.bids

\* two subjective terms and two predicates scored by the classifiers
C19_Witness ==
    /\ call.op = "opine" /\ call.obj_context = "sensitive" /\ call.err = ""
    /\ obj_attrs # EmptyCache
    /\ Len(SubOf(call)) = 2 /\ Len(ObjOf(call)) = 2
    /\ Len(call.mlog) = 18
    /\ \E i \in 1..Len(call.mlog) :
          call.mlog[i].pred # None /\ ~call.mlog[i].hit /\ call.mlog[i].score # Fallback
    /\ \E bid \in Range(call.bids) : call.scores[bid] # One


(***************************************************************************)
(* get_features_obj called as train_scorer and membership call it          *)
(***************************************************************************)
\* SimpleOpine.get_features_obj(atype, value, attr, op, oprand)
GetFeaturesObj(atype, value, attr, op, oprand) ==
    LET Computed(f) ==
            /\ call' = [NoCall EXCEPT !.op = "get_features_obj", !.err = f.err, !.X = f.X,
                                      !.args = <<atype, value, attr, op, oprand>>]
            /\ prev' = NoCall
            /\ UNCHANGED <<entities, static, run, mhist,
                           phrase2vec_cache, interpret_cache, membership_cache>>
    IN  Computed(get_features_obj(Start, atype, value, attr, op, oprand))

FeaturePreds ==
    AgnosticPreds \cup NumericPreds \cup {CuisineFrench, DatePriceLt3, FlagWifiTrue}

\* the predicate of a query term as opine splits it: (atype, attr, op, oprand)
Fields(pred) == Decompose(<<pred>>, <<>>, <<>>).obj[1]

\* obj_features = self.get_features_obj(atype, value, attr, op, oprand) with
\* value = self.entities[bid][attr]
FeaturesOfPredicate ==
    \E pred \in FeaturePreds, bid \in DOMAIN entities :
        /\ HasKey(entities[bid], Fields(pred)[2])
        /\ GetFeaturesObj(Fields(pred)[1], ValueAt(entities[bid], Fields(pred)[2]),
                          Fields(pred)[2], Fields(pred)[3], Fields(pred)[4])

\* obj_features = self.get_features_obj('', '', '', '', '')
FeaturesOfPlaceholder == GetFeaturesObj(<<>>, StrV(<<>>), <<>>, <<>>, <<>>)

NextFeatures == ClearCache \/ FeaturesOfPredicate \/ FeaturesOfPlaceholder

SpecFeatures == InitFrom({TRUE}, KdTies, Trainings, SampleSets) /\ [][NextFeatures]_vars

\* the numeric predicate of the call holds of the value of the call
Satisfied(args) ==
    /\ args[1] = <<"num">>
    /\ FloatOf(args[2]).ok /\ FloatOfStr(args[5]).ok
    /\ \/ args[4] = <<"<">> /\ FloatOf(args[2]).n < FloatOfStr(args[5]).n
       \/ args[4] = <<">">> /\ FloatOf(args[2]).n > FloatOfStr(args[5]).n

\* C20: the block get_features_obj returns has 1 + len(cate_to_id) + 2
\* features for a predicate of every type and for the placeholder, and its
\* last two features, absolute and relative difference, are both 0 when the
\* numeric predicate is satisfied by the value.
C20_FeatureBlock ==
    (call.op = "get_features_obj" /\ call.err = "") =>
        /\ Len(call.X) = 1 + Cardinality(DOMAIN cate_to_id) + 2
        /\ Satisfied(call.args) =>
              /\ call.X[Len(call.X) - 1] = Int2F(0)
              /\ call.X[Len(call.X)] = Int2F(0)



(***************************************************************************)
(* get_features_summary on summaries of fewer and of more than 10 markers  *)
(***************************************************************************)
\* a summary of n markers in descending order of mean sentiment
SummaryOf(n) == [i \in 1..n |-> Marker(<<0, 1>>, "tasty food", 20 - i, 2)]

SummaryLengths == {0, 1, 2, 9, 10, 11, 12}

InitSummary ==
    \E n \in SummaryLengths :
        Built(ConstructedOn([LoadedEntities(FALSE) EXCEPT
                                 !["B"].summaries = << <<"food", SummaryOf(n)>> >>],
                            FALSE, "first", <<0, 1>>, {<<"A", CLEAN>>}))

\* SimpleOpine.get_features_summary(self.entities[bid]['summaries'][attr_name], qterm)
GetFeaturesSummary(bid, attr_name, qterm) ==
    LET Computed(s) ==
            /\ Finish(s)
            /\ call' = [NoCall EXCEPT !.op = "get_features_summary", !.err = s.err,
                                      !.X = IF s.err = "" THEN s.ret ELSE <<>>,
                                      !.args = <<Get(entities[bid].summaries, attr_name), qterm>>]
            /\ prev' = NoCall
            /\ UNCHANGED mhist
    IN  Computed(get_features_summary(Start, bid, attr_name, qterm))

FeaturesOfSummary ==
    \E bid \in DOMAIN entities, qterm \in {CLEAN, TastyFood, COZY} :
        \E attr_name \in Keys(entities[bid].summaries) :
            GetFeaturesSummary(bid, attr_name, qterm)

NextSummary == ClearCache \/ FeaturesOfSummary

SpecSummary == InitSummary /\ [][NextSummary]_vars

\* the number of markers the features are taken from
Taken(summary) == IF Len(summary) > num_markers THEN num_markers ELSE Len(summary)

\* C21: the vector get_features_summary returns has 5 * 10 = 50 features for
\* every summary: five per marker for the first 10 markers at most, in
\* ascending order of mean sentiment, then zeros.
C21_FixedLength ==
    (call.op = "get_features_summary" /\ call.err = "") =>
        /\ Len(call.X) = 5 * num_markers
        /\ \A k \in 1..(Taken(call.args[1]) - 1) :
              ~FracLess(call.X[5 * k + 3], call.X[5 * (k - 1) + 3])
        /\ \A i \in (5 * Taken(call.args[1]) + 1)..(5 * num_markers) : call.X[i] = Int2F(0)


(***************************************************************************)
(* CooccurInterpreter.interpret called on the interpreter of the engine    *)
(***************************************************************************)
\* corpora: as loaded; with extractions of one attribute only; with a second
\* review voting for another attribute with the same idf; with a relevant
\* review without extractions
Corpora ==
    {Reviews,
     << Reviews[1], Reviews[3] >>,
     Reviews \o << Review("r4", <<"clean", SP, "food">>, 4,
                          << Extraction(<<"clean">>, <<"food">>, "food") >>) >>,
     Reviews \o << Review("r5", <<"cozy", SP, "place">>, 5, <<>>) >>}

InitCooc ==
    \E corpus \in Corpora, tie \in KdTies :
        Built(ConstructedWith(corpus, LoadedEntities(FALSE), FALSE, tie, <<0, 1>>,
                              {<<"A", CLEAN>>}))

\* self.cooc.interpret(qterm)
CoocInterpret(qterm) ==
    LET Returned(s) ==
            /\ Finish(s)
            /\ call' = Logs(s, [NoCall EXCEPT !.op = "cooc.interpret", !.term = qterm,
                                              !.interp = s.ret])
            /\ prev' = NoCall
            /\ UNCHANGED mhist
    IN  Returned(cooc_interpret(Start, qterm))

CoocTerms == {CLEAN, GREAT_STAY, COZY, FOOD, Dirty, TastyFood, <<"room">>}

CoocInterpretTerm == \E qterm \in CoocTerms : CoocInterpret(qterm)

InterpretCoocTerm == \E query_term \in {CLEAN, COZY} : Interpret(query_term)

NextCooc == ClearCache \/ CoocInterpretTerm \/ InterpretCoocTerm

SpecCooc == InitCooc /\ [][NextCooc]_vars

\* C22: after interpret(term) on the co-occurrence interpreter its cache
\* holds the returned result under the term, so that a second call with the
\* term returns it from the cache without scoring the reviews again.
C22_Memoized ==
    call.op = "cooc.interpret" =>
        /\ call.term \in DOMAIN cooc_cache
        /\ cooc_cache[call.term] = call.interp


\* score_mp of interpret: relevance times sentiment, 0.0 for a review that is
\* not relevant
ScoreMp(qterm) ==
    LET TimesSentiment(scores) ==
            [i \in 1..Len(reviews) |->
                IF scores[i] > 0 THEN scores[i] * reviews[i].sentiment ELSE 0]
    IN  TimesSentiment(bm25_get_scores(reviews, simple_preprocess(qterm)))

\* the retained reviews: the first 10 by descending score, with a positive score
Retained(qterm) ==
    LET Positive(i) == ScoreMp(qterm)[i] > 0
        Top(sorted) ==
            SubSeq(sorted, 1, IF Len(sorted) < TopReviews THEN Len(sorted) ELSE TopReviews)
    IN  SelectSeq(Top(SortReviews(reviews, 1, <<>>, ScoreMp(qterm))), Positive)

\* an extraction span of the review co-occurs positionally with the term
CoOccurs(review, qterm) ==
    \E j \in 1..Len(review.extractions) :
        get_dist(review, review.extractions[j].predicate \o <<SP>>
                             \o review.extractions[j].entity, qterm) >= 0

\* C23: the co-occurrence interpreter returns (None, None) if and only if no
\* retained review has an extraction span that co-occurs with the term;
\* otherwise it returns an attribute whose idf-weighted vote count no other
\* attribute exceeds, with the phrase recorded for it, also when the idf of
\* the attribute is 0.
C23_NullIffNoCooccurrence ==
    LET Best(votes, idf_of) ==
            \E k \in 1..Len(votes) :
                /\ call.interp = <<votes[k].attr, votes[k].phrase>>
                /\ \A j \in 1..Len(votes) :
                      ~WeightedGreater(votes[j].votes, idf_of[votes[j].attr],
                                       votes[k].votes, idf_of[votes[k].attr])
        Claimed(votes) ==
            /\ call.interp = <<NoAttr, None>>
                  <=> \A i \in Range(Retained(call.term)) : ~CoOccurs(reviews[i], call.term)
            /\ call.interp # <<NoAttr, None>> => Best(votes, cooc_idf(reviews))
    IN  call.op = "cooc.interpret" =>
            Claimed(Votes(reviews, Retained(call.term), ScoreMp(call.term), call.term, <<>>))


(***************************************************************************)
(* The three caches under phrase2vec, interpret and opine calls            *)
(***************************************************************************)
RankCaches ==
    Rank({<<CLEAN>>, <<TastyFood>>, <<CLEAN, PriceLt3>>}, {ABC}, Modes, {"sensitive", "agnostic"})

EmbedCaches == \E phrase \in {CLEAN, COZY, ODD} : Phrase2Vec(phrase)

InterpretCaches == \E query_term \in {CLEAN, COZY} : Interpret(query_term)

NextCaches == ClearCache \/ EmbedCaches \/ InterpretCaches \/ RankCaches

SpecCaches == InitFrom(BOOLEAN, {"first"}, Trainings, SampleSets) /\ [][NextCaches]_vars

\* every entry of the cache is an entry of the cache after the step
Kept(cache, cache_after) ==
    \A key \in DOMAIN cache : key \in DOMAIN cache_after /\ cache_after[key] = cache[key]

\* C24: a step other than clear_cache() removes no entry from the
\* phrase-vector, interpretation and membership caches and changes the value
\* of none.
C24_CachesGrow ==
    [][call'.op # "clear_cache" =>
          /\ Kept(phrase2vec_cache, phrase2vec_cache')
          /\ Kept(interpret_cache, interpret_cache')
          /\ Kept(membership_cache, membership_cache')]_vars

\* a rank call that found a membership score in the cache and added another
C24_Witness ==
    /\ call.op = "opine" /\ call.err = ""
    /\ \E i, j \in 1..Len(call.mlog) :
          /\ call.mlog[i].hit /\ ~call.mlog[j].hit
          /\ membership_cache[call.mlog[i].key] = call.mlog[i].score
          /\ membership_cache[call.mlog[j].key] = call.mlog[j].score
          /\ \A k \in 1..Len(call.mlog) : call.mlog[k].key = call.mlog[i].key => call.mlog[k].hit
    /\ DOMAIN interpret_cache # {} /\ DOMAIN phrase2vec_cache # {}


(***************************************************************************)
(* train_scorer: the sampling loop of the constructor, one step per        *)
(* iteration                                                               *)
(***************************************************************************)
\* num_samples of train_scorer, scaled down
num_samples == 2

\* the classifiers before train_scorer returns
Unfit == <<0, 0>>

\* the (bid, qterm) pairs of query_label_fn whose bid is in self.entities
LabelSets ==
    {{}, {<<"A", CLEAN>>}, {<<"B", CLEAN>>}, {<<"A", CLEAN>>, <<"B", CLEAN>>},
     {<<"C", CLEAN>>}, {<<"A", TastyFood>>, <<"B", CLEAN>>}}

\* the constructor at the start of the loop: indices built, no sample yet
InitTrain ==
    \E withObj \in BOOLEAN, tie \in KdTies, labels \in LabelSets :
        LET Entered(s) ==
                /\ entities = s.ent
                /\ obj_attrs = s.obj_attrs
                /\ cate_to_id = s.cate_to_id
                /\ all_phrases = s.all_phrases
                /\ all_vectors = s.all_vectors
                /\ kd_tree = s.kd_tie
                /\ reviews = s.reviews
                /\ cooc_cache = s.cc
                /\ marker_model = s.marker_model
                /\ phrase_model = s.phrase_model
                /\ phrase2vec_cache = s.p2v
                /\ interpret_cache = s.ic
                /\ membership_cache = s.mc
                /\ call = NoCall
                /\ prev = NoCall
                /\ mhist = EmptyCache
                /\ run = [t \in Threads |-> Idle]
                /\ train = [pc |-> "sampling", sampled |-> 0,
                            all_bids |-> {l[1] : l \in labels},
                            all_qterms |-> {l[2] : l \in labels}, err |-> ""]
        IN  Entered(ConstructedWith(Reviews, LoadedEntities(withObj), withObj, tie, Unfit, {}))

\* one iteration of `while sampled < num_samples` with the pair drawn
SampleOne(bid, qterm) ==
    /\ train.pc = "sampling"
    /\ train.sampled < num_samples
    /\ bid \in train.all_bids
    /\ qterm \in train.all_qterms
    /\ \E s \in {TrainOn(Start, bid, qterm)}, attr_name \in {interpret(Start, qterm).ret[1]} :
          /\ phrase2vec_cache' = s.p2v
          /\ interpret_cache' = s.ic
          /\ membership_cache' = s.mc
          /\ entities' = s.ent
          /\ train' = IF s.err # "" THEN [train EXCEPT !.pc = "failed", !.err = s.err]
                      ELSE IF attr_name \in Keys(entities[bid].summaries)
                           THEN [train EXCEPT !.sampled = @ + 1]
                      ELSE train
    /\ UNCHANGED <<obj_attrs, cate_to_id, all_phrases, all_vectors, kd_tree, reviews,
                   cooc_cache, marker_model, phrase_model, call, prev, mhist, run>>

\* random.choice of an empty list raises IndexError
SampleNone ==
    /\ train.pc = "sampling"
    /\ train.sampled < num_samples
    /\ train.all_bids = {} \/ train.all_qterms = {}
    /\ train' = [train EXCEPT !.pc = "failed", !.err = "IndexError"]
    /\ UNCHANGED <<entities, obj_attrs, cate_to_id, all_phrases, all_vectors, kd_tree, reviews,
                   cooc_cache, marker_model, phrase_model, phrase2vec_cache, interpret_cache,
                   membership_cache, call, prev, mhist, run>>

\* after the loop: the split and the two fits, which give the classifiers or
\* raise ValueError (a single class among the labels)
Fit ==
    /\ train.pc = "sampling"
    /\ train.sampled >= num_samples
    /\ \/ \E training \in Trainings :
             /\ marker_model' = training[1]
             /\ phrase_model' = training[2]
             /\ train' = [train EXCEPT !.pc = "fitted"]
       \/ /\ train' = [train EXCEPT !.pc = "failed", !.err = "ValueError"]
          /\ UNCHANGED <<marker_model, phrase_model>>
    /\ UNCHANGED <<entities, obj_attrs, cate_to_id, all_phrases, all_vectors, kd_tree, reviews,
                   cooc_cache, phrase2vec_cache, interpret_cache, membership_cache,
                   call, prev, mhist, run>>

SampleAny == \E bid \in Range(EntityIds), qterm \in {CLEAN, TastyFood} : SampleOne(bid, qterm)

NextTrain == SampleAny \/ SampleNone \/ Fit

SpecTrain == InitTrain /\ [][NextTrain]_vars

\* some iteration or the step after the loop changes the state
Progresses ==
    LET Changes(s, attr_name, bid) ==
            \/ s.err # ""
            \/ attr_name \in Keys(entities[bid].summaries)
            \/ s.p2v # phrase2vec_cache
            \/ s.ic # interpret_cache
            \/ s.mc # membership_cache
            \/ s.ent # entities
    IN  /\ train.pc = "sampling"
        /\ \/ train.sampled >= num_samples
           \/ train.all_bids = {}
           \/ train.all_qterms = {}
           \/ \E bid \in train.all_bids, qterm \in train.all_qterms :
                 Changes(TrainOn(Start, bid, qterm), interpret(Start, qterm).ret[1], bid)

\* C25: the sampling loop of the constructor always ends: as long as it runs,
\* it has collected num_samples samples and goes on to the fits, or the next
\* draw raises, or a pair that can be drawn changes the state; it never
\* reaches a state in which every iteration leaves everything as it is.
C25_SamplingEnds == train.pc = "sampling" => Progresses

====
